---- MODULE Spec2Model ----
(***************************************************************************)
(* ChronoCore AI engine: the karma calculator, the realm manager and the   *)
(* timeline analyzer (src/ai-engine/src/services) with the model classes   *)
(* they work on (src/ai-engine/src/models).                                *)
(*                                                                         *)
(* Fixed-point conventions                                                 *)
(*   - modifiers (0.7, 1.2, ...) are held in tenths;                       *)
(*   - a product of floats is held as an exact fraction num/den and        *)
(*     rounded once, where the code rounds.                                *)
(***************************************************************************)
EXTENDS Integers, Sequences, FiniteSets, TLC

VARIABLES
    player_action_history,  \* KarmaCalculator.player_action_history: player id -> list of entries
    returned,               \* the calculate calls so far, in call order: player, karma_score
                            \* of the evaluation, karma impact returned
    total_call,             \* the last calculate_total call: player, number of actions, total
                            \* returned, index in `returned` of its first calculate call
    request,                \* the decision a client keeps resubmitting (SpecRepeat)
    realms,                 \* GameState.realms: list of Realm
    players,                \* GameState.players: list of Player
    timelines,              \* GameState.timelines: list of Timeline
    events_history,         \* GameState.events_history
    time_rifts,             \* GameState.time_rifts
    outcome,                \* what the last realm or analysis operation returned
    steps,                  \* number of state-changing game operations so far
    current_turn,           \* GameState.current_turn
    current_player_index,   \* GameState.current_player_index
    cache,                  \* GameData.cache["game_states"]: game id -> game state
    store,                  \* the game_states collection of the database: game id -> game state
    acknowledged,           \* history: the game states read from the store or written to it
    tasks,                  \* the evaluate-decision requests in flight on the event loop
    updates                 \* number of update_realm calls of a realm's development run

karmaVars == <<player_action_history, returned, total_call, request>>

gameVars == <<realms, players, timelines, events_history, time_rifts>>

restVars == <<current_turn, current_player_index, cache, store, acknowledged, tasks, updates>>

vars == <<player_action_history, returned, total_call, request,
          realms, players, timelines, events_history, time_rifts, outcome, steps,
          current_turn, current_player_index, cache, store, acknowledged, tasks, updates>>

----------------------------------------------------------------------------
(* Numeric helpers                                                         *)

Abs(x) == IF x < 0 THEN -x ELSE x

Min(a, b) == IF a <= b THEN a ELSE b

Max(a, b) == IF a >= b THEN a ELSE b

\* floor(n / d) for d > 0 and any integer n
FloorDiv(n, d) == n \div d

\* Python's round() on the exact value n/d (d > 0): nearest integer, ties to even
RoundHalfEven(n, d) ==
    LET fl  == FloorDiv(n, d)
        rem == n - fl * d
    IN  IF 2 * rem > d THEN fl + 1
        ELSE IF 2 * rem < d THEN fl
        ELSE IF fl % 2 = 0 THEN fl ELSE fl + 1

RECURSIVE SumSeq(_)
SumSeq(s) == IF s = <<>> THEN 0 ELSE Head(s) + SumSeq(Tail(s))

Last(s) == s[Len(s)]

\* s[-n:] of Python
LastN(s, n) == IF Len(s) <= n THEN s ELSE SubSeq(s, Len(s) - n + 1, Len(s))

----------------------------------------------------------------------------
(* Text helpers: str.lower() and the substring test `keyword in text`      *)

UpperCase == "ABCDEFGHIJKLMNOPQRSTUVWXYZ"

LowerCase == "abcdefghijklmnopqrstuvwxyz"

LowerChar(c) ==
    IF \E i \in 1..Len(UpperCase) : SubSeq(UpperCase, i, i) = c
    THEN LET i == CHOOSE j \in 1..Len(UpperCase) : SubSeq(UpperCase, j, j) = c
         IN  SubSeq(LowerCase, i, i)
    ELSE c

RECURSIVE Lower(_)
Lower(s) == IF Len(s) = 0 THEN ""
            ELSE LowerChar(SubSeq(s, 1, 1)) \o Lower(SubSeq(s, 2, Len(s)))

Contains(text, keyword) ==
    \E i \in 1..(Len(text) - Len(keyword) + 1) :
        SubSeq(text, i, i + Len(keyword) - 1) = keyword

----------------------------------------------------------------------------
(* KarmaCalculator: tables                                                 *)

Absent == "<absent>"    \* a key the evaluation dict does not hold

\* role_modifiers, in tenths
role_modifiers ==
    [r \in {"Techno Monk", "Shadow Broker", "Chrono Diplomat", "Bio-Smith"} |->
        CASE r = "Techno Monk"     -> [ethical |-> 12, technological |-> 8,  temporal |-> 10]
          [] r = "Shadow Broker"   -> [ethical |-> 8,  technological |-> 10, temporal |-> 12]
          [] r = "Chrono Diplomat" -> [ethical |-> 10, technological |-> 8,  temporal |-> 12]
          [] r = "Bio-Smith"       -> [ethical |-> 11, technological |-> 12, temporal |-> 7]]

\* era_modifiers, in tenths
era_modifiers ==
    [e \in {"Initiation", "Progression", "Distortion", "Equilibrium"} |->
        CASE e = "Initiation"  -> 8
          [] e = "Progression" -> 10
          [] e = "Distortion"  -> 12
          [] e = "Equilibrium" -> 15]

\* action_categories, in the dict's insertion order
action_categories == <<
    [category |-> "ethical_positive",  keywords |-> <<"help", "save", "protect", "heal", "share">>],
    [category |-> "ethical_negative",  keywords |-> <<"harm", "destroy", "betray", "steal", "lie">>],
    [category |-> "tech_positive",     keywords |-> <<"research", "develop", "innovate", "build", "upgrade">>],
    [category |-> "tech_negative",     keywords |-> <<"sabotage", "corrupt", "weaponize", "exploit">>],
    [category |-> "temporal_positive", keywords |-> <<"stabilize", "balance", "harmonize", "connect">>],
    [category |-> "temporal_negative", keywords |-> <<"disrupt", "fracture", "collapse", "sever">>] >>

KarmaLo == -10

KarmaHi == 10

HistoryWindow == 5

HistoryCap == 20

----------------------------------------------------------------------------
(* KarmaCalculator: operations                                             *)

HasKeyword(decision_lower, i) ==
    \E k \in 1..Len(action_categories[i].keywords) :
        Contains(decision_lower, action_categories[i].keywords[k])

\* the first category of action_categories with a keyword in the lower-cased
\* decision text, or Absent when no keyword matches
KeywordCategoryOf(decision) ==
    LET decision_lower == Lower(decision)
        hits == {i \in 1..Len(action_categories) : HasKeyword(decision_lower, i)}
    IN  IF hits # {}
        THEN action_categories[CHOOSE i \in hits : \A j \in hits : i <= j].category
        ELSE Absent

\* decision texts: with a keyword (in upper and lower case) and without one
Decisions == {"Help the settlers", "wait and watch", "SABOTAGE the relay"}

\* KeywordCategoryOf, computed once for each decision text
KeywordCategory == [d \in Decisions |-> KeywordCategoryOf(d)]

\* _categorize_action(decision, karma_impact)
CategorizeAction(decision, karma_impact) ==
    IF KeywordCategory[decision] # Absent THEN KeywordCategory[decision]
    ELSE IF karma_impact > 3 THEN "ethical_positive"
    ELSE IF karma_impact < -3 THEN "ethical_negative"
    ELSE IF 0 < karma_impact /\ karma_impact <= 3 THEN "tech_positive"
    ELSE IF -3 <= karma_impact /\ karma_impact < 0 THEN "tech_negative"
    ELSE "neutral"

\* the loop of _calculate_consecutive_modifier over reversed(history[-5:]):
\* the number of trailing entries of `window` whose category is `category`
RECURSIVE TrailingMatches(_, _)
TrailingMatches(window, category) ==
    IF window = <<>> \/ Last(window).category # category THEN 0
    ELSE 1 + TrailingMatches(SubSeq(window, 1, Len(window) - 1), category)

\* the category _calculate_consecutive_modifier compares the history with
CurrentCategory(decision, base_karma) == CategorizeAction(decision, base_karma)

\* consecutive_count of _calculate_consecutive_modifier (0 for an empty history)
ConsecutiveCount(history, decision, base_karma) ==
    IF history = <<>> THEN 0
    ELSE TrailingMatches(LastN(history, HistoryWindow), CurrentCategory(decision, base_karma))

\* _calculate_consecutive_modifier: 1.0 / (1.0 + count * 0.2) = 5 / (5 + count),
\* as the pair <<numerator, denominator>>
ConsecutiveModifier(history, decision, base_karma) ==
    <<5, 5 + ConsecutiveCount(history, decision, base_karma)>>

\* role_modifier of calculate, in tenths
RoleModifier(evaluation) ==
    IF evaluation.player_role \in DOMAIN role_modifiers
    THEN LET m == role_modifiers[evaluation.player_role]
         IN  IF evaluation.ethical_impact # "" THEN m.ethical
             ELSE IF evaluation.technological_impact # "" THEN m.technological
             ELSE IF evaluation.temporal_impact # "" THEN m.temporal
             ELSE 10
    ELSE 10

\* era_modifier of calculate, in tenths
EraModifier(evaluation) ==
    LET era == IF evaluation.game_era = Absent THEN "Progression" ELSE evaluation.game_era
    IN  IF era \in DOMAIN era_modifiers THEN era_modifiers[era] ELSE 10

\* the clamp left out
ClampKarmaMissing(karma_impact) == karma_impact

\* max(-10, min(10, karma_impact))
ClampKarma(karma_impact) == Max(KarmaLo, Min(KarmaHi, karma_impact))

\* the karma impact calculate returns for `history`
KarmaImpact(history, decision, evaluation) ==
    LET base_karma == evaluation.karma_score
        cm == ConsecutiveModifier(history, decision, base_karma)
        num == base_karma * RoleModifier(evaluation) * EraModifier(evaluation) * cm[1]
        den == 100 * cm[2]
    IN  ClampKarma(RoundHalfEven(num, den))

\* the category _update_action_history records
RecordedCategory(decision, karma_impact) == CategorizeAction(decision, karma_impact)

\* the list cut to its first 20 entries, so that the newest entry is the one dropped
UpdateActionHistoryKeepOldest(history, decision, karma_impact) ==
    LET appended == Append(history, [decision |-> decision,
                                     karma_impact |-> karma_impact,
                                     category |-> RecordedCategory(decision, karma_impact)])
    IN  IF Len(appended) > HistoryCap THEN SubSeq(appended, 1, HistoryCap) ELSE appended

\* _update_action_history: the player's list after the call
UpdateActionHistory(history, decision, karma_impact) ==
    LET appended == Append(history, [decision |-> decision,
                                     karma_impact |-> karma_impact,
                                     category |-> RecordedCategory(decision, karma_impact)])
    IN  IF Len(appended) > HistoryCap THEN LastN(appended, HistoryCap) ELSE appended

\* calculate as a function of the player's history: what it returns and the history it leaves
Calculate(history, decision, evaluation) ==
    LET karma_impact == KarmaImpact(history, decision, evaluation)
    IN  [karma_impact |-> karma_impact,
         history |-> UpdateActionHistory(history, decision, karma_impact)]

\* the running sum clamped like a single impact
TotalResultClamped(total_karma) == Max(KarmaLo, Min(KarmaHi, total_karma))

\* the total calculate_total returns from the running sum
TotalResult(total_karma) == total_karma

\* the loop of calculate_total: each action goes through calculate, on the
\* history the previous one left
RECURSIVE CalculateTotalLoop(_, _, _, _)
CalculateTotalLoop(history, actions, total_karma, impacts) ==
    IF actions = <<>>
    THEN [total |-> TotalResult(total_karma), history |-> history, impacts |-> impacts]
    ELSE LET c == Calculate(history, Head(actions).decision, Head(actions).evaluation)
         IN  CalculateTotalLoop(c.history, Tail(actions), total_karma + c.karma_impact,
                                Append(impacts, c.karma_impact))

----------------------------------------------------------------------------
(* Karma service: requests and handlers                                    *)

Players == {"p1", "p2"}

NoCall == [player |-> Absent, n |-> 0, total |-> 0, first |-> 0]

NoRequest == [player |-> Absent]

Evaluation(score, role, eth, tech, temp, era) ==
    [karma_score |-> score, player_role |-> role, ethical_impact |-> eth,
     technological_impact |-> tech, temporal_impact |-> temp, game_era |-> era]

ImpactTexts == {"", "noted"}

\* the evaluations of the free-running karma service
FreeScores == {-15, -4, 0, 3, 5, 10, 15}

FreeEvaluations ==
    {Evaluation(s, r, i, "", i, e) :
        s \in FreeScores, r \in {"Bio-Smith", Absent}, i \in ImpactTexts,
        e \in {"Initiation", "Equilibrium"}}

\* the action lists handed to calculate_total
TotalActions ==
    {[decision |-> d, evaluation |-> Evaluation(s, Absent, "", "", "", e)] :
        d \in {"Help the settlers", "wait and watch"}, s \in {-10, 4, 10},
        e \in {Absent, "Equilibrium"}}

MaxCalls == 2

MaxScore == 15

MaxRepeat == 6

RECURSIVE SeqsUpTo(_, _)
SeqsUpTo(S, n) ==
    IF n = 0 THEN {<<>>}
    ELSE LET shorter == SeqsUpTo(S, n - 1)
         IN  shorter \cup {Append(q, x) : q \in {r \in shorter : Len(r) = n - 1}, x \in S}

\* every evaluation a client may resubmit
RepeatEvaluations ==
    {Evaluation(s, r, eth, tech, temp, e) :
        s \in (-MaxScore)..MaxScore,
        r \in DOMAIN role_modifiers \cup {Absent},
        eth \in ImpactTexts, tech \in ImpactTexts, temp \in ImpactTexts,
        e \in DOMAIN era_modifiers \cup {Absent}}

\* a game at its first turn, an empty cache and database, no request in flight
InitRest ==
    /\ current_turn = 0
    /\ current_player_index = 0
    /\ cache = <<>>
    /\ store = <<>>
    /\ acknowledged = {}
    /\ tasks = <<>>
    /\ updates = 0

InitKarmaState ==
    /\ player_action_history = [p \in Players |-> <<>>]
    /\ returned = <<>>
    /\ total_call = NoCall

\* a game state without content, for the runs of the karma service alone
NoGame ==
    /\ InitRest
    /\ realms = <<>>
    /\ players = <<>>
    /\ timelines = <<>>
    /\ events_history = <<>>
    /\ time_rifts = <<>>
    /\ outcome = [op |-> Absent]
    /\ steps = 0

InitKarma ==
    /\ InitKarmaState
    /\ request = NoRequest
    /\ NoGame

\* POST /calculate-karma: one calculate call
CalculateCall(p, decision, evaluation) ==
    /\ Len(returned) < MaxCalls
    /\ LET c == Calculate(player_action_history[p], decision, evaluation)
       IN  /\ player_action_history' = [player_action_history EXCEPT ![p] = c.history]
           /\ returned' = Append(returned, [player |-> p,
                                            karma_score |-> evaluation.karma_score,
                                            karma_impact |-> c.karma_impact])
    /\ UNCHANGED <<total_call, request, gameVars, outcome, steps, restVars>>

\* POST /calculate-total-karma: calculate_total over a list of actions
CalculateTotalCall(p, actions) ==
    /\ Len(returned) + Len(actions) <= MaxCalls
    /\ LET t == CalculateTotalLoop(player_action_history[p], actions, 0, <<>>)
       IN  /\ player_action_history' = [player_action_history EXCEPT ![p] = t.history]
           /\ returned' = returned \o [k \in 1..Len(t.impacts) |->
                                          [player |-> p,
                                           karma_score |-> actions[k].evaluation.karma_score,
                                           karma_impact |-> t.impacts[k]]]
           /\ total_call' = [player |-> p, n |-> Len(actions), total |-> t.total,
                             first |-> Len(returned) + 1]
    /\ UNCHANGED <<request, gameVars, outcome, steps, restVars>>

NextKarma ==
    \/ \E p \in Players, d \in Decisions, ev \in FreeEvaluations : CalculateCall(p, d, ev)
    \/ \E p \in Players, actions \in SeqsUpTo(TotalActions, MaxCalls) : CalculateTotalCall(p, actions)

SpecKarma == InitKarma /\ [][NextKarma]_vars

\* a client that keeps submitting one decision with one evaluation
InitRepeat ==
    /\ InitKarmaState
    /\ request \in [player : {"p1"}, decision : Decisions, evaluation : RepeatEvaluations]
    /\ NoGame

RepeatCall ==
    /\ Len(returned) < MaxRepeat
    /\ LET c == Calculate(player_action_history[request.player], request.decision,
                          request.evaluation)
       IN  /\ player_action_history' =
                  [player_action_history EXCEPT ![request.player] = c.history]
           /\ returned' = Append(returned, [player |-> request.player,
                                            karma_score |-> request.evaluation.karma_score,
                                            karma_impact |-> c.karma_impact])
    /\ UNCHANGED <<total_call, request, gameVars, outcome, steps, restVars>>

NextRepeat == RepeatCall

SpecRepeat == InitRepeat /\ [][NextRepeat]_vars

\* a client that plays a script: a list of calls, each with its player, submitted
\* in order and started over when the end is reached
MaxHistoryCalls == 33

ScriptCall(p, decision, score) ==
    [player |-> p, decision |-> decision,
     evaluation |-> Evaluation(score, Absent, "", "", "", Absent)]

Scripts == {
    <<ScriptCall("p1", "Help the settlers", 10), ScriptCall("p1", "wait and watch", -4),
      ScriptCall("p1", "SABOTAGE the relay", -10), ScriptCall("p1", "wait and watch", 3),
      ScriptCall("p1", "Help the settlers", 5), ScriptCall("p1", "wait and watch", 0),
      ScriptCall("p1", "SABOTAGE the relay", -7)>>,
    <<ScriptCall("p1", "Help the settlers", 10), ScriptCall("p2", "wait and watch", -4),
      ScriptCall("p1", "SABOTAGE the relay", -10)>>,
    <<ScriptCall("p2", "wait and watch", 5), ScriptCall("p2", "wait and watch", -4),
      ScriptCall("p2", "Help the settlers", 9)>>,
    <<ScriptCall("p1", "wait and watch", 5), ScriptCall("p2", "wait and watch", 5)>>,
    <<ScriptCall("p2", "Help the settlers", 5)>> }

InitHistory ==
    /\ InitKarmaState
    /\ request \in [script : Scripts]
    /\ NoGame

\* POST /evaluate-decision for the next call of the script
HistoryCall ==
    /\ Len(returned) < MaxHistoryCalls
    /\ LET call == request.script[(Len(returned) % Len(request.script)) + 1]
           c == Calculate(player_action_history[call.player], call.decision, call.evaluation)
       IN  /\ player_action_history' =
                  [player_action_history EXCEPT ![call.player] = c.history]
           /\ returned' = Append(returned, [player |-> call.player,
                                            karma_score |-> call.evaluation.karma_score,
                                            karma_impact |-> c.karma_impact,
                                            decision |-> call.decision])
    /\ UNCHANGED <<total_call, request, gameVars, outcome, steps, restVars>>

NextHistory == HistoryCall

SpecHistory == InitHistory /\ [][NextHistory]_vars

----------------------------------------------------------------------------
(* Claims on the karma calculator                                          *)

\* the calls of `returned` made for player p, in call order
ReturnedFor(p) == SelectSeq(returned, LAMBDA r : r.player = p)

\* C1: every karma impact calculate returns is an integer in [-10, 10], for any
\* karma_score, role, era and prior history, and the history entry the call
\* appends holds the value it returned.
C1_ImpactBoundedAndRecorded ==
    \A p \in Players :
        LET calls == ReturnedFor(p)
            history == player_action_history[p]
        IN  Len(calls) <= HistoryCap =>
                /\ Len(history) = Len(calls)
                /\ \A k \in 1..Len(calls) :
                        /\ calls[k].karma_impact \in KarmaLo..KarmaHi
                        /\ history[k].karma_impact = calls[k].karma_impact

\* C1 witness: a karma_score of 15 met a non-empty history and came back as 10
C1_Witness ==
    \E k \in 2..Len(returned) :
        /\ returned[k].karma_score = 15
        /\ returned[k].karma_impact = KarmaHi
        /\ returned[k - 1].player = returned[k].player

\* C2 (as claimed): a decision resubmitted with the same evaluation, with a
\* karma_score in [-10, 10], never returns a delta larger in absolute value
\* than the call before it returned, with or without a category keyword.
C2_RepeatNonIncreasing ==
    request.evaluation.karma_score \in KarmaLo..KarmaHi =>
        \A k \in 2..Len(returned) :
            Abs(returned[k].karma_impact) <= Abs(returned[k - 1].karma_impact)

\* C10: calculate_total returns the sum of the impacts its calculate calls
\* returned, each of them in [-10, 10], and the sum itself is not clamped.
C10_TotalIsSumOfClampedDeltas ==
    total_call # NoCall =>
        LET ks == total_call.first..(total_call.first + total_call.n - 1)
            impacts == [k \in 1..total_call.n |->
                            returned[total_call.first + k - 1].karma_impact]
        IN  /\ \A k \in ks : /\ returned[k].player = total_call.player
                              /\ returned[k].karma_impact \in KarmaLo..KarmaHi
            /\ total_call.total = SumSeq(impacts)
            /\ total_call.total \in (KarmaLo * total_call.n)..(KarmaHi * total_call.n)

\* C10 witness: a total of two actions that lies outside [-10, 10]
C10_Witness ==
    /\ total_call.n = 2
    /\ total_call.total > KarmaHi

\* the calls of one player so far, in call order
CallsOf(p) == SelectSeq(returned, LAMBDA r : r.player = p)

\* C11: a player's action history never holds more than 20 entries, and they
\* are the entries of the player's most recent min(20, calls) calls, in call
\* order.
C11_HistoryIsLastTwenty ==
    \A p \in Players :
        LET calls == LastN(CallsOf(p), HistoryCap)
            history == player_action_history[p]
        IN  /\ Len(history) <= HistoryCap
            /\ Len(history) = Min(HistoryCap, Len(CallsOf(p)))
            /\ \A k \in 1..Len(history) :
                   /\ history[k].decision = calls[k].decision
                   /\ history[k].karma_impact = calls[k].karma_impact

\* C11 witness: a player has made more than 20 calls, the history is full and
\* its first entry is no longer that of the first call
C11_Witness ==
    \E p \in Players :
        /\ Len(CallsOf(p)) > HistoryCap + 1
        /\ Len(player_action_history[p]) = HistoryCap
        /\ player_action_history[p][1].decision # CallsOf(p)[1].decision

----------------------------------------------------------------------------
(* Float helpers of the realm manager                                      *)
(*   - int(x) truncates toward zero;                                       *)
(*   - math.log10 and math.sqrt are irrational: each is enclosed between   *)
(*     a lower and an upper value in tenths, and an operation picks one    *)
(*     end of the enclosure;                                               *)
(*   - random.uniform(a, b) and random.randint(a, b) are drawn from the    *)
(*     ends (and the middle) of their ranges.                              *)

\* int(n / d) for d > 0: truncation toward zero
TruncDiv(n, d) == IF n >= 0 THEN n \div d ELSE -((-n) \div d)

\* int(a * k / d) for a >= 0, d > 0 without forming a * k
TruncMulDiv(a, k, d) ==
    LET m == Abs(k)
        q == (a \div d) * m + (((a % d) * m) \div d)
    IN  IF k >= 0 THEN q ELSE -q

RECURSIVE Pow10(_)
Pow10(k) == IF k = 0 THEN 1 ELSE 10 * Pow10(k - 1)

RECURSIVE NumDigits(_)
NumDigits(n) == IF n < 10 THEN 1 ELSE 1 + NumDigits(n \div 10)

\* ceil(1000 * 10^(j/10)) for j = 0..9
Log10Mantissa == <<1000, 1259, 1585, 1996, 2512, 3163, 3982, 5012, 6310, 7944>>

\* the leading four digits of n >= 1000
Mantissa(n) == n \div Pow10(NumDigits(n) - 4)

\* math.log10(n) for n >= 1000, in tenths: a value not above it ...
Log10TenthsLo(n) ==
    LET m == Mantissa(n)
        j == CHOOSE i \in 0..9 : /\ m >= Log10Mantissa[i + 1]
                                 /\ \A k \in 0..9 : m >= Log10Mantissa[k + 1] => k <= i
    IN  10 * (NumDigits(n) - 1) + j

\* ... and a value not below it
Log10TenthsHi(n) ==
    LET m == Mantissa(n)
        above(i) == i = 10 \/ m + 1 <= Log10Mantissa[i + 1] - 1
        j == CHOOSE i \in 1..10 : above(i) /\ \A k \in 1..10 : above(k) => i <= k
    IN  IF n = Pow10(NumDigits(n) - 1) THEN 10 * (NumDigits(n) - 1)
        ELSE 10 * (NumDigits(n) - 1) + j

\* the r in lo..hi with r * r <= n < (r + 1) * (r + 1), by bisection
RECURSIVE ISqrtBetween(_, _, _)
ISqrtBetween(n, lo, hi) ==
    IF lo = hi THEN lo
    ELSE LET mid == (lo + hi + 1) \div 2
         IN  IF mid * mid <= n THEN ISqrtBetween(n, mid, hi) ELSE ISqrtBetween(n, lo, mid - 1)

\* floor(sqrt(n)) for 0 <= n < 2^31
ISqrt(n) == ISqrtBetween(n, 0, Min(n, 46340))

----------------------------------------------------------------------------
(* RealmManager: tables                                                    *)

\* TECH_FOCUS_IMPACTS, in tenths
TECH_FOCUS_IMPACTS ==
    [f \in {"Balanced", "Military", "Scientific", "Cultural", "Economic", "Spiritual",
            "Ecological"} |->
        CASE f = "Balanced"   -> [resources |-> 10, population |-> 10, ethical |-> 0]
          [] f = "Military"   -> [resources |-> 12, population |-> 8,  ethical |-> -5]
          [] f = "Scientific" -> [resources |-> 9,  population |-> 10, ethical |-> 2]
          [] f = "Cultural"   -> [resources |-> 8,  population |-> 12, ethical |-> 5]
          [] f = "Economic"   -> [resources |-> 15, population |-> 9,  ethical |-> -2]
          [] f = "Spiritual"  -> [resources |-> 7,  population |-> 11, ethical |-> 7]
          [] f = "Ecological" -> [resources |-> 9,  population |-> 10, ethical |-> 6]]

\* TECH_FOCUS_IMPACTS.get(focus, {key: default})[key], in tenths
FocusImpact(focus, key) ==
    IF focus \in DOMAIN TECH_FOCUS_IMPACTS THEN TECH_FOCUS_IMPACTS[focus][key]
    ELSE IF key = "ethical" THEN 0 ELSE 10

TECH_LEVEL_THRESHOLDS == <<0, 100, 250, 500, 1000, 2000, 4000, 8000, 16000, 32000>>

ResourceFloor == 10

PopulationFloor == 1000

\* ethical alignment is held in tenths: -100.0 .. 100.0
AlignmentLo == -1000

AlignmentHi == 1000

\* the per-turn ethical shift is held in tenths: -5.0 .. 5.0
ShiftLo == -50

ShiftHi == 50

----------------------------------------------------------------------------
(* RealmManager: calculations                                              *)

\* population_factor = math.log10(max(1000, population)) - 2, in tenths
PopulationFactor(population, hi) ==
    LET n == Max(1000, population)
    IN  (IF hi THEN Log10TenthsHi(n) ELSE Log10TenthsLo(n)) - 20

\* _calculate_resource_change: int((5 + pf * level * 0.5 * focus) * variation),
\* variation in hundredths
ResourceChange(realm, hi, variation) ==
    LET pf == PopulationFactor(realm.population, hi)
        focus_impact == FocusImpact(realm.technology_focus, "resources")
    IN  TruncDiv((1000 + pf * realm.development_level * focus_impact) * variation, 20000)

\* growth_rate of _calculate_population_change, in 1/25000:
\* (0.05 + min(2.0, resources / 50) * 0.02 + level * 0.03) * focus
GrowthRate(realm) ==
    (125 + Min(100, realm.resources) + 75 * realm.development_level)
        * FocusImpact(realm.technology_focus, "population")

\* _calculate_population_change: int(int(population * growth_rate) * variation),
\* variation in hundredths
PopulationChange(realm, variation) ==
    LET change == TruncMulDiv(realm.population, GrowthRate(realm), 25000)
    IN  TruncDiv(change * variation, 100)

\* sqrt(max(1, resources)) / sqrt(level), in tenths
ResourcePerLevelRoot(realm, hi) ==
    LET root == ISqrt((100 * Max(1, realm.resources)) \div realm.development_level)
    IN  IF hi THEN root + 1 ELSE root

\* _calculate_development_progress:
\* int((5 + pf * sqrt(max(1, resources)) * 0.5 / sqrt(level)) * variation)
DevelopmentProgress(realm, hi, variation) ==
    LET pf == PopulationFactor(realm.population, hi)
        root == ResourcePerLevelRoot(realm, hi)
    IN  TruncDiv((1000 + pf * root) * variation, 20000)

\* the points taken as the threshold of the realm's own level
CurrentDevPointsOfLevel(level) == TECH_LEVEL_THRESHOLDS[level]

\* current_dev_points = level * TECH_LEVEL_THRESHOLDS[min(9, level)]
CurrentDevPoints(level) == level * TECH_LEVEL_THRESHOLDS[Min(9, level) + 1]

\* the loop over enumerate(TECH_LEVEL_THRESHOLDS): new_level is 1, then level + 1
\* for every leading threshold that new_dev_points reaches
RECURSIVE LevelScan(_, _, _)
LevelScan(new_dev_points, i, new_level) ==
    IF i > Len(TECH_LEVEL_THRESHOLDS) THEN new_level
    ELSE IF new_dev_points >= TECH_LEVEL_THRESHOLDS[i]
         THEN LevelScan(new_dev_points, i + 1, i)
         ELSE new_level

NewLevel(new_dev_points) == LevelScan(new_dev_points, 1, 1)

\* the new level assigned without the comparison
LevelAfterUnguarded(development_level, new_level) == new_level

\* `if new_level > realm.development_level: realm.development_level = new_level`
LevelAfter(development_level, new_level) ==
    IF new_level > development_level THEN new_level ELSE development_level

\* _generate_realm_description: the parts of the text that depend on the realm
RealmDescription(realm) ==
    [tech |-> Min(9, Max(0, realm.development_level - 1)),
     ethical |-> IF realm.ethical_alignment > 700 THEN "highly ethical and altruistic"
                 ELSE IF realm.ethical_alignment > 300 THEN "generally ethical and cooperative"
                 ELSE IF realm.ethical_alignment > -300 THEN "ethically balanced"
                 ELSE IF realm.ethical_alignment > -700
                      THEN "somewhat unethical and self-interested"
                 ELSE "highly unethical and exploitative",
     population |-> IF realm.population > 10000000 THEN "massive"
                    ELSE IF realm.population > 1000000 THEN "large"
                    ELSE IF realm.population > 100000 THEN "moderate"
                    ELSE "small",
     focus |-> realm.technology_focus]

\* the level-up step shared by update_realm and the discovery event
WithLevel(realm, points) ==
    LET level == LevelAfter(realm.development_level,
                            NewLevel(CurrentDevPoints(realm.development_level) + points))
    IN  IF level # realm.development_level
        THEN LET raised == [realm EXCEPT !.development_level = level]
             IN  [raised EXCEPT !.description = RealmDescription(raised)]
        ELSE realm

\* owner_influence of _calculate_ethical_shift, in tenths: the first player whose
\* id is the owner's decides
RECURSIVE OwnerInfluence(_, _)
OwnerInfluence(owner_id, ps) ==
    IF ps = <<>> THEN 0
    ELSE IF Head(ps).player_id = owner_id
         THEN LET karma == Head(ps).karma
                  karma_direction == IF karma > 0 THEN 1 ELSE IF karma < 0 THEN -1 ELSE 0
              IN  karma_direction * Min(20, Abs(karma))
         ELSE OwnerInfluence(owner_id, Tail(ps))

InSeq(x, q) == \E i \in 1..Len(q) : q[i] = x

\* events_impact of _calculate_ethical_shift, in tenths, over events_history[-5:]
RECURSIVE EventsImpact(_, _)
EventsImpact(realm_id, recent_events) ==
    IF recent_events = <<>> THEN 0
    ELSE (IF InSeq(realm_id, Head(recent_events).affected_realms)
          THEN Head(recent_events).karma_impact * 2 ELSE 0)
         + EventsImpact(realm_id, Tail(recent_events))

\* the per-turn limit left out
ClampShiftMissing(shift) == shift

\* max(-5.0, min(5.0, shift)), in tenths
ClampShift(shift) == Max(ShiftLo, Min(ShiftHi, shift))

\* _calculate_ethical_shift, in tenths
EthicalShift(realm) ==
    LET base_shift == IF realm.ethical_alignment > 0 THEN -5
                      ELSE IF realm.ethical_alignment < 0 THEN 5 ELSE 0
        owner_influence == IF realm.owner_id # Absent
                           THEN OwnerInfluence(realm.owner_id, players) ELSE 0
        focus_impact == FocusImpact(realm.technology_focus, "ethical")
        events_impact == EventsImpact(realm.realm_id, LastN(events_history, 5))
    IN  ClampShift(base_shift + owner_influence + focus_impact + events_impact)

\* max(-100, min(100, ethical_alignment)), in tenths
ClampAlignment(a) == Max(AlignmentLo, Min(AlignmentHi, a))

\* update_realm: the realm after the turn, for one outcome of the random draws
UpdatedRealm(realm, hi, v_res, v_pop, v_dev) ==
    LET resources_change == ResourceChange(realm, hi, v_res)
        population_change == PopulationChange(realm, v_pop)
        development_progress == DevelopmentProgress(realm, hi, v_dev)
        grown == [realm EXCEPT !.resources = @ + resources_change,
                               !.population = @ + population_change]
        levelled == WithLevel(grown, development_progress)
    IN  [levelled EXCEPT !.ethical_alignment = ClampAlignment(@ + EthicalShift(levelled))]

\* max(10, resources) of the disaster branch
FloorResources(resources) == Max(ResourceFloor, resources)

\* the population floor left out
FloorPopulationMissing(population) == population

\* max(1000, population) of the disaster and population_change branches
FloorPopulation(population) == Max(PopulationFloor, population)

\* event_data.get(key, default)
Get(event_data, key, default) ==
    IF key \in DOMAIN event_data THEN event_data[key] ELSE default

\* process_realm_event, event_type "disaster"; r_res = randint(5, 20), r_pop = randint(500, 2000).
\* The impacts are computed exactly; the float product may land one unit nearer
\* zero, which the floors applied afterwards absorb.
Disaster(realm, event_data, r_res, r_pop) ==
    LET severity == Get(event_data, "severity", 1)
        keep == 10 - Min(8, realm.development_level)     \* 1 - mitigation, in tenths
        resource_impact == TruncDiv(-severity * (10 + r_res) * keep, 10)
        population_impact == TruncDiv(-severity * (1000 + r_pop) * keep, 10)
    IN  [realm |-> [realm EXCEPT !.resources = FloorResources(@ + resource_impact),
                                 !.population = FloorPopulation(@ + population_impact)],
         effects |-> [resources |-> resource_impact, population |-> population_impact,
                      development |-> -severity]]

\* the resources a discovery or a resource_discovery leaves
AddResources(resources, amount) == resources + amount

\* process_realm_event, event_type "discovery"; r_res = randint(5, 15), r_dev = randint(5, 20)
Discovery(realm, event_data, r_res, r_dev) ==
    LET importance == Get(event_data, "importance", 1)
        resource_impact == importance * (5 + r_res)
        development_impact == importance * (10 + r_dev)
        richer == [realm EXCEPT !.resources = AddResources(@, resource_impact)]
        levelled == WithLevel(richer, development_impact)
    IN  [realm |-> levelled,
         effects |-> [resources |-> resource_impact, development |-> development_impact,
                      tech_level |-> levelled.development_level]]

\* process_realm_event, event_type "cultural_shift"; magnitude in whole points
CulturalShift(realm, event_data) ==
    LET direction == Get(event_data, "direction", 0)
        magnitude == Get(event_data, "magnitude", 5)
        ethical_impact == direction * magnitude
    IN  [realm |-> [realm EXCEPT !.ethical_alignment = ClampAlignment(@ + 10 * ethical_impact)],
         effects |-> [ethical_alignment |-> ethical_impact]]

\* process_realm_event, event_type "resource_discovery"
ResourceDiscovery(realm, event_data) ==
    LET amount == Get(event_data, "amount", 20)
    IN  [realm |-> [realm EXCEPT !.resources = AddResources(@, amount)],
         effects |-> [resources |-> amount]]

\* process_realm_event, event_type "population_change"
PopulationChangeEvent(realm, event_data) ==
    LET amount == Get(event_data, "amount", 5000)
    IN  [realm |-> [realm EXCEPT !.population = FloorPopulation(@ + amount)],
         effects |-> [population |-> amount]]

\* the first player of game_state.players with this id, or Absent
RECURSIVE FindPlayer(_, _)
FindPlayer(player_id, ps) ==
    IF ps = <<>> THEN Absent
    ELSE IF Head(ps).player_id = player_id THEN Head(ps) ELSE FindPlayer(player_id, Tail(ps))

HasPlayer(player_id, ps) == \E k \in 1..Len(ps) : ps[k].player_id = player_id

\* transfer_realm_ownership: karma_influence = karma * 0.1 is karma tenths
TransferOwnership(realm, new_owner_id) ==
    LET owned == [realm EXCEPT !.owner_id = new_owner_id]
        moved == [old_owner |-> realm.owner_id, new_owner |-> new_owner_id]
    IN  IF HasPlayer(new_owner_id, players)
        THEN LET karma_influence == FindPlayer(new_owner_id, players).karma
             IN  [realm |-> [owned EXCEPT !.ethical_alignment =
                                              ClampAlignment(@ + karma_influence)],
                  effects |-> [old_owner |-> realm.owner_id, new_owner |-> new_owner_id,
                               ethical_shift |-> karma_influence]]
        ELSE [realm |-> owned, effects |-> moved]

----------------------------------------------------------------------------
(* Realm service: game states and handlers                                 *)

MaxRealmOps == 2

Realm(id, timeline_id, owner_id, level, focus, alignment, resources, population) ==
    [realm_id |-> id, timeline_id |-> timeline_id, owner_id |-> owner_id,
     development_level |-> level, technology_focus |-> focus,
     ethical_alignment |-> alignment, resources |-> resources, population |-> population,
     description |-> [text |-> "A developing realm"]]

Player(id, karma) == [player_id |-> id, karma |-> karma]

Timeline(id, stability, realm_ids, events) ==
    [timeline_id |-> id, stability |-> stability, tech_level |-> 1, karma_alignment |-> 0,
     realms |-> realm_ids, events |-> events]

GameEvent(affected_realms, karma_impact) ==
    [affected_realms |-> affected_realms, karma_impact |-> karma_impact]

\* the realms a game starts a run with: the realm of create_new_game, an
\* ecological realm at level 5, and realms at the floors and ceilings of their fields
StartRealms == {
    Realm("realm_0", "timeline_0", Absent, 1, "Balanced", 0, 50, 1000000),
    Realm("realm_0", "timeline_0", "p1", 5, "Ecological", 0, 40, 2000000),
    Realm("realm_0", "timeline_0", "p1", 10, "Military", -1000, 10, 1000),
    Realm("realm_0", "timeline_0", "p1", 3, "Spiritual", 998, 6000, 1000),
    Realm("realm_0", "timeline_0", "p2", 7, "Nomadic", -3, 25, 30000) }

StartKarma == {-25, 7}

StartHistories == {
    <<GameEvent(<<"realm_9">>, -10)>>,
    [k \in 1..6 |-> GameEvent(<<"realm_0">>, 10)] }

InitRealm ==
    /\ InitRest
    /\ InitKarmaState
    /\ request = NoRequest
    /\ \E r \in StartRealms : realms = <<r>>
    /\ \E k \in StartKarma : players = <<Player("p1", k), Player("p2", 1500)>>
    /\ timelines = <<Timeline("timeline_0", 100000, <<"realm_0">>, <<>>)>>
    /\ events_history \in StartHistories
    /\ time_rifts = <<>>
    /\ outcome = [op |-> Absent]
    /\ steps = 0

\* the ends of random.uniform(a, b), in hundredths
Uniform(a, b) == {a, b}

\* the ends of random.randint(a, b)
RandInt(a, b) == {a, b}

RealmStep(i, op, result) ==
    /\ steps < MaxRealmOps
    /\ realms' = [realms EXCEPT ![i] = result.realm]
    /\ outcome' = [op |-> op, realm_id |-> realms[i].realm_id, effects |-> result.effects]
    /\ steps' = steps + 1
    /\ UNCHANGED <<restVars, karmaVars, players, timelines, events_history, time_rifts>>

\* RealmManager.update_realm
UpdateRealm(i) ==
    \E hi \in BOOLEAN, v_res \in Uniform(80, 120), v_pop \in Uniform(90, 110),
       v_dev \in Uniform(85, 115) :
        RealmStep(i, "update_realm",
                  [realm |-> UpdatedRealm(realms[i], hi, v_res, v_pop, v_dev),
                   effects |-> [updated |-> TRUE]])

\* an event_data dict without the key its branch reads
NoData == [name |-> "event"]

\* RealmManager.process_realm_event, one branch per event type
ProcessDisaster(i) ==
    \E event_data \in {NoData, [severity |-> 3], [severity |-> 40]},
       r_res \in RandInt(5, 20), r_pop \in RandInt(500, 2000) :
        RealmStep(i, "disaster", Disaster(realms[i], event_data, r_res, r_pop))

ProcessDiscovery(i) ==
    \E event_data \in {NoData, [importance |-> -400], [importance |-> -3], [importance |-> 4],
                        [importance |-> 400]},
       r_res \in RandInt(5, 15), r_dev \in RandInt(5, 20) :
        RealmStep(i, "discovery", Discovery(realms[i], event_data, r_res, r_dev))

ProcessCulturalShift(i) ==
    \E event_data \in {NoData, [direction |-> -1], [direction |-> 1],
                       [direction |-> -1, magnitude |-> 300],
                       [direction |-> 1, magnitude |-> 300]} :
        RealmStep(i, "cultural_shift", CulturalShift(realms[i], event_data))

ProcessResourceDiscovery(i) ==
    \E event_data \in {NoData, [amount |-> -50], [amount |-> 50]} :
        RealmStep(i, "resource_discovery", ResourceDiscovery(realms[i], event_data))

ProcessPopulationChange(i) ==
    \E event_data \in {NoData, [amount |-> -5000000], [amount |-> -1000]} :
        RealmStep(i, "population_change", PopulationChangeEvent(realms[i], event_data))

\* RealmManager.transfer_realm_ownership
TransferRealmOwnership(i) ==
    \E new_owner_id \in {"p1", "p2", "p3"} :
        RealmStep(i, "transfer_realm_ownership", TransferOwnership(realms[i], new_owner_id))

NextRealm ==
    \/ \E i \in 1..Len(realms) : UpdateRealm(i)
    \/ \E i \in 1..Len(realms) : ProcessDisaster(i)
    \/ \E i \in 1..Len(realms) : ProcessDiscovery(i)
    \/ \E i \in 1..Len(realms) : ProcessCulturalShift(i)
    \/ \E i \in 1..Len(realms) : ProcessResourceDiscovery(i)
    \/ \E i \in 1..Len(realms) : ProcessPopulationChange(i)
    \/ \E i \in 1..Len(realms) : TransferRealmOwnership(i)

SpecRealm == InitRealm /\ [][NextRealm]_vars

----------------------------------------------------------------------------
(* Claims on the realm manager                                             *)

RealmIndexes == 1..Len(realms)

\* C3: no update_realm or process_realm_event call lowers a realm's
\* development_level, and a level in 1..10 stays in 1..10.
C3_LevelNeverDecreases ==
    [][\A i \in RealmIndexes :
          /\ realms'[i].development_level >= realms[i].development_level
          /\ realms[i].development_level \in 1..10 => realms'[i].development_level \in 1..10]_vars

\* C3 witness: a discovery of importance -400, which takes more development
\* points away than the level holds, has left a realm at level 5 or above
C3_Witness ==
    /\ outcome.op = "discovery"
    /\ outcome.effects.development < -1000
    /\ realms[1].development_level >= 5

\* C5: a call that starts with population >= 1000 and resources >= 10 leaves
\* population >= 1000.
C5_PopulationFloor ==
    [][\A i \in RealmIndexes :
          (realms[i].population >= PopulationFloor /\ realms[i].resources >= ResourceFloor)
              => realms'[i].population >= PopulationFloor]_vars

\* C5 witness: a population_change that takes away more than the realm holds
\* has left it at the floor
C5_Witness ==
    /\ outcome.op = "population_change"
    /\ outcome.effects.population < -1000000
    /\ realms[1].population = PopulationFloor

\* C6 (as claimed): a call that starts with resources >= 10 leaves resources
\* >= 10, whatever event_data the caller supplies.
C6_ResourceFloor ==
    [][\A i \in RealmIndexes :
          realms[i].resources >= ResourceFloor => realms'[i].resources >= ResourceFloor]_vars

\* C7: ethical_alignment stays in [-100, 100] after every operation, and one
\* update_realm call moves it by at most 5.
C7_AlignmentBounded ==
    [][\A i \in RealmIndexes :
          /\ realms'[i].ethical_alignment \in AlignmentLo..AlignmentHi
          /\ outcome'.op = "update_realm" =>
                Abs(realms'[i].ethical_alignment - realms[i].ethical_alignment) <= ShiftHi]_vars

\* C7 witness: the first update_realm of a realm that started at alignment 0
\* has moved it by the full 5.0
C7_Witness ==
    /\ outcome.op = "update_realm"
    /\ steps = 1
    /\ realms[1].technology_focus = "Balanced"
    /\ realms[1].ethical_alignment = ShiftHi

----------------------------------------------------------------------------
(* TimelineAnalyzer: fixed-point conventions                               *)
(*   - a stability, and every term added to it, is held in thousandths of  *)
(*     a point: 0 .. 100000 stands for 0 .. 100;                           *)
(*   - a paradox severity is held in 1/600: a tech_inversion of level      *)
(*     difference d has 300 * d, an ethical_contradiction of difference a  *)
(*     (tenths of a point) has 2 * a, a contamination of n timelines has   *)
(*     900 * n;                                                            *)
(*   - a quotient or root that is not a whole number of units is one of    *)
(*     the two nearest units, picked by the flag `hi`.                     *)

StabilityLo == 0

StabilityHi == 100000

\* RIFT_THRESHOLD, SPLIT_THRESHOLD, in thousandths
RIFT_THRESHOLD == 30000

SPLIT_THRESHOLD == 40000

SeverityUnit == 600

\* STABILITY_FACTORS, in tenths
STABILITY_FACTORS ==
    [player_decisions |-> 4, realm_alignment |-> 3, tech_disparity |-> 2,
     time_rifts |-> 5, paradoxes |-> 7, cross_timeline_events |-> 3]

\* n / d (d > 0) as one of the two nearest integers
DivEither(n, d, hi) == IF hi THEN -FloorDiv(-n, d) ELSE FloorDiv(n, d)

\* [r for r in game_state.realms if r.timeline_id == timeline_id]
TimelineRealms(timeline_id) == SelectSeq(realms, LAMBDA r : r.timeline_id = timeline_id)

\* any(realm_id in timeline.realms for realm_id in event.get("affected_realms", []))
AffectsTimeline(event, timeline) ==
    \E k \in 1..Len(Get(event, "affected_realms", <<>>)) :
        InSeq(event.affected_realms[k], timeline.realms)

\* decision_impact before it is normalised: karma_impact * 0.5 per event of the
\* timeline among events_history[-10:]
RECURSIVE DecisionSum(_, _)
DecisionSum(timeline, recent_events) ==
    IF recent_events = <<>> THEN 0
    ELSE (IF AffectsTimeline(Head(recent_events), timeline)
          THEN Get(Head(recent_events), "karma_impact", 0) * 500 ELSE 0)
         + DecisionSum(timeline, Tail(recent_events))

\* max(-20, min(20, decision_impact))
DecisionImpact(timeline) ==
    Max(-20000, Min(20000, DecisionSum(timeline, LastN(events_history, 10))))

RECURSIVE SumAlignments(_)
SumAlignments(rs) ==
    IF rs = <<>> THEN 0 ELSE Head(rs).ethical_alignment + SumAlignments(Tail(rs))

RECURSIVE SumLevels(_)
SumLevels(rs) ==
    IF rs = <<>> THEN 0 ELSE Head(rs).development_level + SumLevels(Tail(rs))

RECURSIVE SumSquaredLevels(_)
SumSquaredLevels(rs) ==
    IF rs = <<>> THEN 0
    ELSE Head(rs).development_level * Head(rs).development_level + SumSquaredLevels(Tail(rs))

\* _calculate_ethical_alignment: the average alignment, in thousandths of a point
\* (the alignments are in tenths)
CalculateEthicalAlignment(rs, hi) ==
    IF rs = <<>> THEN 0 ELSE DivEither(100 * SumAlignments(rs), Len(rs), hi)

\* _calculate_tech_disparity: min(10, 2 * std_dev), in thousandths; with
\* V = n * sum(l^2) - sum(l)^2 the standard deviation is sqrt(V) / n
CalculateTechDisparity(rs, hi) ==
    IF Len(rs) <= 1 THEN 0
    ELSE LET n == Len(rs)
             V == n * SumSquaredLevels(rs) - SumLevels(rs) * SumLevels(rs)
             root == ISqrt(4000000 * V)
             exact == root * root = 4000000 * V /\ root % n = 0
         IN  Min(10000, (root \div n) + (IF hi /\ ~exact THEN 1 ELSE 0))

\* rift_impact: -5 * severity for each unresolved rift located in the timeline
RECURSIVE RiftImpact(_, _)
RiftImpact(timeline, rifts) ==
    IF rifts = <<>> THEN 0
    ELSE (IF /\ ~Get(Head(rifts), "resolved", FALSE)
             /\ Get(Get(Head(rifts), "location", [none |-> TRUE]), "timeline_id", Absent)
                    = timeline.timeline_id
          THEN -(Get(Head(rifts), "severity", 1) * 5000) ELSE 0)
         + RiftImpact(timeline, Tail(rifts))

----------------------------------------------------------------------------
(* TimelineAnalyzer.detect_paradoxes                                       *)

Paradox(type, severity, affected_realms, affected_timelines) ==
    [type |-> type, severity |-> severity, affected_realms |-> affected_realms,
     affected_timelines |-> affected_timelines]

\* the inner loop visiting every realm of the list
InnerStartAll(i) == 1

\* the inner loop runs over tech_levels[i+1:] (and ethical_values[i+1:])
InnerStart(i) == i + 1

\* the paradox of one pair of realms, as a list of none or one
PairParadox(type, r1, r2) ==
    IF type = "tech_inversion"
    THEN LET level1 == r1.development_level
             level2 == r2.development_level
         IN  IF Abs(level1 - level2) > 3
             THEN <<Paradox(type, 300 * Abs(level1 - level2),
                            <<r1.realm_id, r2.realm_id>>, {})>>
             ELSE <<>>
    ELSE LET value1 == r1.ethical_alignment
             value2 == r2.ethical_alignment
         IN  IF value1 * value2 < 0 /\ Abs(value1 - value2) > 1500
             THEN <<Paradox(type, 2 * Abs(value1 - value2),
                            <<r1.realm_id, r2.realm_id>>, {})>>
             ELSE <<>>

\* for i, r1 in enumerate(rs): for r2 in rs[i+1:]: ..., in the order of the appends
RECURSIVE PairScan(_, _, _, _)
PairScan(type, rs, i, j) ==
    IF i > Len(rs) THEN <<>>
    ELSE IF j > Len(rs) THEN PairScan(type, rs, i + 1, InnerStart(i + 1))
    ELSE PairParadox(type, rs[i], rs[j]) \o PairScan(type, rs, i, j + 1)

TechInversions(rs) == PairScan("tech_inversion", rs, 1, InnerStart(1))

EthicalContradictions(rs) == PairScan("ethical_contradiction", rs, 1, InnerStart(1))

\* the timeline of the first realm of game_state.realms with this id, as a set
\* of none or one
RECURSIVE RealmTimeline(_, _)
RealmTimeline(realm_id, rs) ==
    IF rs = <<>> THEN {}
    ELSE IF Head(rs).realm_id = realm_id THEN {Head(rs).timeline_id}
    ELSE RealmTimeline(realm_id, Tail(rs))

\* event_timelines of one event
EventTimelines(event) ==
    UNION {RealmTimeline(Get(event, "affected_realms", <<>>)[k], realms) :
               k \in 1..Len(Get(event, "affected_realms", <<>>))}

\* the contamination paradoxes of events_history[-15:]
RECURSIVE CrossTimelineScan(_, _)
CrossTimelineScan(timeline, recent_events) ==
    IF recent_events = <<>> THEN <<>>
    ELSE LET event_timelines == EventTimelines(Head(recent_events))
         IN  (IF Cardinality(event_timelines) > 1 /\ timeline.timeline_id \in event_timelines
              THEN <<Paradox("cross_timeline_contamination",
                             900 * Cardinality(event_timelines), <<>>, event_timelines)>>
              ELSE <<>>)
             \o CrossTimelineScan(timeline, Tail(recent_events))

\* detect_paradoxes scanning the whole events_history instead of its last 15 entries
DetectParadoxesOfWholeHistory(timeline, rs) ==
    TechInversions(rs) \o EthicalContradictions(rs)
        \o CrossTimelineScan(timeline, events_history)

DetectParadoxesOf(timeline, rs) ==
    TechInversions(rs) \o EthicalContradictions(rs)
        \o CrossTimelineScan(timeline, LastN(events_history, 15))

----------------------------------------------------------------------------
(* TimelineAnalyzer.calculate_stability                                    *)

\* the result returned without the final bounds
ClampStabilityMissing(stability) == stability

\* max(0, min(100, stability))
ClampStability(stability) == Max(StabilityLo, Min(StabilityHi, stability))

\* the sum added to timeline.stability
StabilityChange(timeline, rs, hi) ==
    LET decision_impact == DecisionImpact(timeline)
        alignment_impact == DivEither(CalculateEthicalAlignment(rs, hi), 10, hi)
        tech_impact == -CalculateTechDisparity(rs, hi)
        rift_impact == RiftImpact(timeline, time_rifts)
        paradox_impact == -Len(DetectParadoxesOf(timeline, rs)) * 10000
    IN  DivEither(decision_impact * STABILITY_FACTORS.player_decisions, 10, hi)
        + DivEither(alignment_impact * STABILITY_FACTORS.realm_alignment, 10, hi)
        + DivEither(tech_impact * STABILITY_FACTORS.tech_disparity, 10, hi)
        + DivEither(rift_impact * STABILITY_FACTORS.time_rifts, 10, hi)
        + DivEither(paradox_impact * STABILITY_FACTORS.paradoxes, 10, hi)

CalculateStabilityOf(timeline, rs, hi) ==
    ClampStability(timeline.stability + StabilityChange(timeline, rs, hi))

\* the timeline object after calculate_stability, had the result been stored in it
StoredAfterCalculateWritten(timeline, stability) == [timeline EXCEPT !.stability = stability]

\* the timeline object after calculate_stability: `stability = timeline.stability`
\* copies the field into a local, and nothing is assigned back
StoredAfterCalculate(timeline, stability) == timeline

----------------------------------------------------------------------------
(* TimelineAnalyzer: timeline similarity and predict_events                *)
(* A similarity factor is held in thousandths of 1, a similarity and a     *)
(* probability in thousandths of a percent.  An operation that can raise   *)
(* returns [raised, value].                                                *)

Returned(value) == [raised |-> FALSE, value |-> value]

Raised(error) == [raised |-> TRUE, value |-> error]

\* the difference of the two averages, times n1 * n2
AverageGap(sum1, n1, sum2, n2) == Abs(sum1 * n2 - sum2 * n1)

\* _compare_tech_levels: max(0.0, 1.0 - |avg_tech1 - avg_tech2| / 10)
CompareTechLevels(realms1, realms2, hi) ==
    IF realms1 = <<>> \/ realms2 = <<>> THEN 0
    ELSE LET n == Len(realms1) * Len(realms2)
             gap == AverageGap(SumLevels(realms1), Len(realms1),
                               SumLevels(realms2), Len(realms2))
         IN  Max(0, 1000 - DivEither(100 * gap, n, hi))

\* _compare_ethical_alignments: max(0.0, 1.0 - |avg_align1 - avg_align2| / 200)
CompareEthicalAlignments(realms1, realms2, hi) ==
    IF realms1 = <<>> \/ realms2 = <<>> THEN 0
    ELSE LET n == Len(realms1) * Len(realms2)
             gap == AverageGap(SumAlignments(realms1), Len(realms1),
                               SumAlignments(realms2), Len(realms2))
         IN  Max(0, 1000 - DivEither(gap, 2 * n, hi))

\* what one pair of events adds to common_events, in halves
CommonEvents(event1, event2) ==
    IF event1.type = event2.type
    THEN IF Get(event1, "outcome", Absent) = Get(event2, "outcome", Absent) THEN 2 ELSE 1
    ELSE 0

RECURSIVE SumCommonEvents(_, _, _, _)
SumCommonEvents(events1, events2, i, j) ==
    IF i > Len(events1) THEN 0
    ELSE IF j > Len(events2) THEN SumCommonEvents(events1, events2, i + 1, 1)
    ELSE CommonEvents(events1[i], events2[j]) + SumCommonEvents(events1, events2, i, j + 1)

HasType(events) == \A k \in 1..Len(events) : "type" \in DOMAIN events[k]

\* _compare_timeline_events: event1["type"] raises KeyError on an event stored
\* without that key
CompareTimelineEvents(timeline1, timeline2, hi) ==
    LET events1 == timeline1.events
        events2 == timeline2.events
        total_events == Max(Len(events1), Len(events2))
    IN  IF events1 = <<>> \/ events2 = <<>> THEN Returned(500)
        ELSE IF ~(HasType(events1) /\ HasType(events2)) THEN Raised("KeyError")
        ELSE Returned(DivEither(500 * SumCommonEvents(events1, events2, 1, 1),
                                total_events, hi))

\* calculate_timeline_similarity without its test for a timeline that has no realms
CalculateTimelineSimilarityUnguarded(timeline1, timeline2, hi) ==
    LET realms1 == TimelineRealms(timeline1.timeline_id)
        realms2 == TimelineRealms(timeline2.timeline_id)
        tech_similarity == CompareTechLevels(realms1, realms2, hi)
        ethical_similarity == CompareEthicalAlignments(realms1, realms2, hi)
        event_similarity == CompareTimelineEvents(timeline1, timeline2, hi)
    IN  IF event_similarity.raised THEN event_similarity
        ELSE Returned((3 * tech_similarity + 4 * ethical_similarity
                           + 3 * event_similarity.value) * 10)

\* calculate_timeline_similarity
CalculateTimelineSimilarity(timeline1, timeline2, hi) ==
    LET realms1 == TimelineRealms(timeline1.timeline_id)
        realms2 == TimelineRealms(timeline2.timeline_id)
        tech_similarity == CompareTechLevels(realms1, realms2, hi)
        ethical_similarity == CompareEthicalAlignments(realms1, realms2, hi)
        event_similarity == CompareTimelineEvents(timeline1, timeline2, hi)
    IN  IF realms1 = <<>> \/ realms2 = <<>> THEN Returned(0)
        ELSE IF event_similarity.raised THEN event_similarity
        ELSE Returned((3 * tech_similarity + 4 * ethical_similarity
                           + 3 * event_similarity.value) * 10)

\* list.sort(key=similarity, reverse=True): one element put in its place, after
\* the elements that are not smaller
RECURSIVE InsertBySimilarity(_, _)
InsertBySimilarity(sorted, x) ==
    IF sorted = <<>> THEN <<x>>
    ELSE IF Head(sorted).similarity >= x.similarity
         THEN <<Head(sorted)>> \o InsertBySimilarity(Tail(sorted), x)
         ELSE <<x>> \o sorted

RECURSIVE SortBySimilarity(_)
SortBySimilarity(list) ==
    IF list = <<>> THEN <<>>
    ELSE InsertBySimilarity(SortBySimilarity(SubSeq(list, 1, Len(list) - 1)), Last(list))

\* the loop of _find_similar_timelines over game_state.timelines[k..]
RECURSIVE SimilarScan(_, _, _)
SimilarScan(target_timeline, k, hi) ==
    IF k > Len(timelines) THEN Returned(<<>>)
    ELSE IF timelines[k].timeline_id = target_timeline.timeline_id
         THEN SimilarScan(target_timeline, k + 1, hi)
    ELSE LET similarity == CalculateTimelineSimilarity(target_timeline, timelines[k], hi)
             rest == SimilarScan(target_timeline, k + 1, hi)
         IN  IF similarity.raised THEN similarity
             ELSE IF rest.raised THEN rest
             ELSE IF similarity.value > 50000
                  THEN Returned(<<[timeline_id |-> timelines[k].timeline_id,
                                   similarity |-> similarity.value]>> \o rest.value)
                  ELSE rest

\* _find_similar_timelines
FindSimilarTimelines(target_timeline, hi) ==
    LET found == SimilarScan(target_timeline, 1, hi)
    IN  IF found.raised THEN found ELSE Returned(SortBySimilarity(found.value))

PotentialEvent(type, probability, severity) ==
    [type |-> type, probability |-> probability, severity |-> severity]

\* predict_events: the time_rift entry
RiftEvents(stability, rift_drawn, hi) ==
    IF stability < RIFT_THRESHOLD /\ (rift_drawn \/ stability <= 0)
    THEN LET severity == Min(5, Max(1, TruncDiv(RIFT_THRESHOLD - stability, 5000) + 1))
         IN  <<PotentialEvent("time_rift", DivEither((RIFT_THRESHOLD - stability) * 10, 3, hi),
                              600 * severity)>>
    ELSE <<>>

\* predict_events: the timeline_split entry; split_chance is num / den
SplitEvents(stability, paradoxes, hi) ==
    LET num == (SPLIT_THRESHOLD - stability) * (IF Len(paradoxes) > 0 THEN 3 ELSE 2)
        den == SPLIT_THRESHOLD * 2
    IN  IF stability < SPLIT_THRESHOLD /\ (10 * num > 3 * den \/ (10 * num = 3 * den /\ hi))
        THEN <<PotentialEvent("timeline_split", DivEither(5 * num, 4, hi), 600 * 4)>>
        ELSE <<>>

\* predict_events: the timeline_merge entries
RECURSIVE MergeEvents(_)
MergeEvents(similar_timelines) ==
    IF similar_timelines = <<>> THEN <<>>
    ELSE (IF Head(similar_timelines).similarity > 70000
          THEN <<PotentialEvent("timeline_merge", Head(similar_timelines).similarity, 600 * 3)>>
          ELSE <<>>)
         \o MergeEvents(Tail(similar_timelines))

\* predict_events: one entry per paradox
RECURSIVE ParadoxEvents(_, _)
ParadoxEvents(stability, paradoxes) ==
    IF paradoxes = <<>> THEN <<>>
    ELSE <<IF stability < 50000
           THEN PotentialEvent("paradox_amplification", (50000 - stability) * 2,
                               Head(paradoxes).severity + 600)
           ELSE PotentialEvent("paradox_resolution", stability - 30000, 600)>>
         \o ParadoxEvents(stability, Tail(paradoxes))

\* predict_events; rift_drawn is `random.random() < rift_chance`
PredictEvents(timeline, stability, paradoxes, rift_drawn, hi) ==
    LET similar_timelines == IF stability > 70000 THEN FindSimilarTimelines(timeline, hi)
                             ELSE Returned(<<>>)
    IN  IF similar_timelines.raised THEN similar_timelines
        ELSE Returned(RiftEvents(stability, rift_drawn, hi)
                      \o SplitEvents(stability, paradoxes, hi)
                      \o MergeEvents(similar_timelines.value)
                      \o ParadoxEvents(stability, paradoxes))

----------------------------------------------------------------------------
(* Timeline and GameState: the methods that change a game                  *)

\* max(0, min(100, self.stability + impact["stability"])) of Timeline.add_event
ClampStoredStability(stability) == Max(StabilityLo, Min(StabilityHi, stability))

\* Timeline.add_event; impact["stability"] is in whole points
TimelineWithEvent(timeline, event_type, impact) ==
    LET logged == [timeline EXCEPT
                       !.events = Append(@, [event_type |-> event_type, impact |-> impact])]
        stable == IF "stability" \in DOMAIN impact
                  THEN [logged EXCEPT
                            !.stability = ClampStoredStability(@ + 1000 * impact.stability)]
                  ELSE logged
        teched == IF "tech_level" \in DOMAIN impact
                  THEN [stable EXCEPT !.tech_level = Max(1, Min(10, @ + impact.tech_level))]
                  ELSE stable
    IN  IF "karma_alignment" \in DOMAIN impact
        THEN [teched EXCEPT
                  !.karma_alignment = Max(-100, Min(100, @ + impact.karma_alignment))]
        ELSE teched

\* GameState.create_time_rift: the entry appended
TimeRift(timeline_id, severity, resolved) ==
    [location |-> [timeline_id |-> timeline_id], severity |-> severity,
     created_at_turn |-> current_turn, resolved |-> resolved]

\* GameState.resolve_time_rift: the entry with "resolved" set and
\* "resolved_at_turn" added
ResolvedRift(rift) ==
    [k \in DOMAIN rift \cup {"resolved_at_turn"} |->
        IF k = "resolved" THEN TRUE
        ELSE IF k = "resolved_at_turn" THEN current_turn
        ELSE rift[k]]

\* GameState.resolve_time_rift(rift_index), rift_index counted from 0
RiftsAfterResolve(rifts, rift_index) ==
    IF 0 <= rift_index /\ rift_index < Len(rifts)
    THEN [rifts EXCEPT ![rift_index + 1] = ResolvedRift(@)]
    ELSE rifts

\* the position in game_state.timelines of the first timeline with this id, or 0
FindTimeline(timeline_id) ==
    IF \E k \in 1..Len(timelines) : timelines[k].timeline_id = timeline_id
    THEN CHOOSE k \in 1..Len(timelines) :
             /\ timelines[k].timeline_id = timeline_id
             /\ \A m \in 1..(k - 1) : timelines[m].timeline_id # timeline_id
    ELSE 0

----------------------------------------------------------------------------
(* Timeline service: game states and operations                            *)

MaxTimelineOps == 2

RealmIds == <<"realm_0", "realm_1", "realm_2">>

\* three realms with the given levels, alignments and timelines
Board(levels, alignments, homes) ==
    [k \in 1..3 |-> Realm(RealmIds[k], homes[k], Absent, levels[k], "Balanced",
                         alignments[k], 50, 1000000)]

\* the nine-realm board of create_new_game cut to three realms, and boards with
\* realms two to nine levels and up to 170 points of alignment apart
Boards == {
    Board(<<1, 1, 1>>, <<0, 0, 0>>, <<"timeline_0", "timeline_0", "timeline_0">>),
    Board(<<2, 9, 5>>, <<-800, 900, 100>>, <<"timeline_0", "timeline_0", "timeline_1">>),
    Board(<<1, 5, 10>>, <<0, 0, 0>>, <<"timeline_0", "timeline_0", "timeline_0">>),
    Board(<<4, 7, 7>>, <<-600, 700, -50>>, <<"timeline_0", "timeline_0", "timeline_1">>) }

\* the ids of the realms of a board that lie in a timeline
RECURSIVE RealmIdsIn(_, _)
RealmIdsIn(board, timeline_id) ==
    IF board = <<>> THEN <<>>
    ELSE (IF Head(board).timeline_id = timeline_id THEN <<Head(board).realm_id>> ELSE <<>>)
         \o RealmIdsIn(Tail(board), timeline_id)

\* the stored stability of timeline_0 and the events both timelines start with:
\* none, events stored by Timeline.add_event, events of a client that carry "type"
StartTimelineStates == {
    [stability |-> 100000, events |-> <<>>],
    [stability |-> 100000, events |-> <<[event_type |-> "battle", impact |-> [stability |-> -5]]>>],
    [stability |-> 100000, events |-> <<[type |-> "battle", outcome |-> "won"],
                                        [type |-> "treaty"]>>],
    [stability |-> 25000, events |-> <<>>],
    [stability |-> 250000, events |-> <<>>] }

\* a quiet game, and a game with events across timelines and open rifts
StartTroubles == {
    [events_history |-> <<>>, time_rifts |-> <<>>],
    [events_history |-> <<GameEvent(<<"realm_0", "realm_2">>, -10),
                          GameEvent(<<"realm_1">>, 7),
                          GameEvent(<<"realm_7">>, -3)>>,
     time_rifts |-> <<TimeRift("timeline_0", 2, FALSE), TimeRift("timeline_0", 50, FALSE),
                      TimeRift("timeline_1", 1, FALSE), TimeRift("timeline_0", 3, TRUE)>>] }

InitTimeline ==
    /\ InitRest
    /\ InitKarmaState
    /\ request = NoRequest
    /\ players = <<Player("p1", 0)>>
    /\ realms \in Boards
    /\ \E s \in StartTimelineStates :
           timelines = <<Timeline("timeline_0", s.stability,
                                  RealmIdsIn(realms, "timeline_0"), s.events),
                         Timeline("timeline_1", 100000,
                                  RealmIdsIn(realms, "timeline_1"), s.events)>>
    /\ \E g \in StartTroubles :
           /\ events_history = g.events_history
           /\ time_rifts = g.time_rifts
    /\ outcome = [op |-> Absent]
    /\ steps = 0

\* one operation; `result` is what it returns, with the operation before it as `after`
TimelineStep(result) ==
    /\ steps < MaxTimelineOps
    /\ steps' = steps + 1
    /\ outcome' = result
    /\ UNCHANGED <<restVars, karmaVars, players, realms>>

\* GameState.add_event
GameAddEvent ==
    \E event \in {GameEvent(<<"realm_0", "realm_2">>, -10), GameEvent(<<"realm_1">>, 10)} :
        /\ events_history' = Append(events_history, event)
        /\ TimelineStep([op |-> "add_event", after |-> outcome.op])
        /\ UNCHANGED <<timelines, time_rifts>>

\* Timeline.add_event
TimelineAddEvent(t) ==
    \E impact \in {[note |-> "quiet"], [stability |-> 500], [stability |-> -30],
                   [stability |-> -500, tech_level |-> 20, karma_alignment |-> -300]} :
        /\ timelines' = [timelines EXCEPT ![t] = TimelineWithEvent(@, "incident", impact)]
        /\ TimelineStep([op |-> "timeline_add_event", after |-> outcome.op,
                         timeline_id |-> timelines[t].timeline_id, impact |-> impact])
        /\ UNCHANGED <<events_history, time_rifts>>

\* GameState.create_time_rift
CreateTimeRift ==
    \E timeline_id \in {"timeline_0", "timeline_1"}, severity \in {1, 50} :
        /\ time_rifts' = Append(time_rifts, TimeRift(timeline_id, severity, FALSE))
        /\ TimelineStep([op |-> "create_time_rift", after |-> outcome.op])
        /\ UNCHANGED <<timelines, events_history>>

\* GameState.resolve_time_rift
ResolveTimeRift ==
    \E rift_index \in {-1, 0, 1} :
        /\ time_rifts' = RiftsAfterResolve(time_rifts, rift_index)
        /\ TimelineStep([op |-> "resolve_time_rift", after |-> outcome.op])
        /\ UNCHANGED <<timelines, events_history>>

\* TimelineAnalyzer.calculate_stability on a timeline of the game and its realms
CalculateStability(t) ==
    \E hi \in BOOLEAN :
        LET timeline == timelines[t]
            stability == CalculateStabilityOf(timeline, TimelineRealms(timeline.timeline_id), hi)
        IN  /\ timelines' = [timelines EXCEPT ![t] = StoredAfterCalculate(@, stability)]
            /\ TimelineStep([op |-> "calculate_stability", after |-> outcome.op,
                             timeline_id |-> timeline.timeline_id, stability |-> stability])
            /\ UNCHANGED <<events_history, time_rifts>>

TimelineIds == {"timeline_0", "timeline_1", "timeline_9"}

\* POST /detect-paradoxes: the HTTPException of an unknown timeline is caught by
\* the handler's own `except Exception` and answered as status 500
DetectParadoxes ==
    \E timeline_id \in TimelineIds :
        LET t == FindTimeline(timeline_id)
        IN  /\ TimelineStep(
                   IF t = 0
                   THEN [op |-> "detect_paradoxes", after |-> outcome.op,
                         timeline_id |-> timeline_id, status |-> 500]
                   ELSE [op |-> "detect_paradoxes", after |-> outcome.op,
                         timeline_id |-> timeline_id, status |-> 200,
                         paradoxes |-> DetectParadoxesOf(timelines[t],
                                                         TimelineRealms(timeline_id))])
            /\ UNCHANGED <<timelines, events_history, time_rifts>>

\* what analyze_timeline returns for a timeline of the game
Analysis(timeline, stability, rift_drawn, hi) ==
    LET rs == TimelineRealms(timeline.timeline_id)
        paradoxes == DetectParadoxesOf(timeline, rs)
        potential_events == PredictEvents(timeline, stability, paradoxes, rift_drawn, hi)
    IN  IF potential_events.raised
        THEN [op |-> "analyze_timeline", after |-> outcome.op,
              timeline_id |-> timeline.timeline_id, status |-> 500]
        ELSE [op |-> "analyze_timeline", after |-> outcome.op,
              timeline_id |-> timeline.timeline_id, status |-> 200,
              stability |-> stability, paradoxes |-> paradoxes,
              tech_disparity |-> CalculateTechDisparity(rs, hi),
              ethical_alignment |-> CalculateEthicalAlignment(rs, hi),
              potential_events |-> potential_events.value]

\* POST /analyze-timeline: calculate_stability, detect_paradoxes and
\* predict_events on the timeline, or an error entry for an unknown id
AnalyzeTimeline ==
    \E timeline_id \in TimelineIds, rift_drawn \in BOOLEAN, hi \in BOOLEAN :
        LET t == FindTimeline(timeline_id)
        IN  IF t = 0
            THEN /\ TimelineStep([op |-> "analyze_timeline", after |-> outcome.op,
                                  timeline_id |-> timeline_id, status |-> 200,
                                  error |-> "not found"])
                 /\ UNCHANGED <<timelines, events_history, time_rifts>>
            ELSE LET stability == CalculateStabilityOf(timelines[t],
                                                       TimelineRealms(timeline_id), hi)
                 IN  /\ timelines' = [timelines EXCEPT
                                          ![t] = StoredAfterCalculate(@, stability)]
                     /\ TimelineStep(Analysis(timelines[t], stability, rift_drawn, hi))
                     /\ UNCHANGED <<events_history, time_rifts>>

\* TimelineAnalyzer.calculate_timeline_similarity on two timelines of the game
CalculateSimilarity ==
    \E t1 \in 1..Len(timelines), t2 \in 1..Len(timelines), hi \in BOOLEAN :
        LET similarity == CalculateTimelineSimilarity(timelines[t1], timelines[t2], hi)
        IN  /\ TimelineStep([op |-> "calculate_timeline_similarity", after |-> outcome.op,
                             timeline_id |-> timelines[t1].timeline_id,
                             other_id |-> timelines[t2].timeline_id,
                             status |-> IF similarity.raised THEN 500 ELSE 200,
                             similarity |-> similarity.value])
            /\ UNCHANGED <<timelines, events_history, time_rifts>>

\* generate_time_rift: the candidates in the order of game_state.timelines[k..];
\* chance is rift_chance in 1/30000
RECURSIVE RiftCandidates(_, _)
RiftCandidates(k, hi) ==
    IF k > Len(timelines) THEN <<>>
    ELSE LET stability == CalculateStabilityOf(timelines[k],
                                               TimelineRealms(timelines[k].timeline_id), hi)
         IN  (IF stability < RIFT_THRESHOLD
              THEN <<[timeline_id |-> timelines[k].timeline_id, stability |-> stability,
                      chance |-> RIFT_THRESHOLD - stability]>>
              ELSE <<>>)
             \o RiftCandidates(k + 1, hi)

\* rift_candidates.sort(key=chance, reverse=True): one candidate put in its
\* place, after the candidates whose chance is not smaller
RECURSIVE InsertByChance(_, _)
InsertByChance(sorted, x) ==
    IF sorted = <<>> THEN <<x>>
    ELSE IF Head(sorted).chance >= x.chance
         THEN <<Head(sorted)>> \o InsertByChance(Tail(sorted), x)
         ELSE <<x>> \o sorted

RECURSIVE SortByChance(_)
SortByChance(list) ==
    IF list = <<>> THEN <<>>
    ELSE InsertByChance(SortByChance(SubSeq(list, 1, Len(list) - 1)), Last(list))

\* the candidates left in the order of the timelines
TrialOrderUnsorted(rift_candidates) == rift_candidates

\* the order in which the candidates are tried
TrialOrder(rift_candidates) == SortByChance(rift_candidates)

\* `random.random() < candidate["chance"]`: random() is below 1
TrialSucceeds(candidate, drawn) == drawn \/ candidate.chance >= RIFT_THRESHOLD

\* the position of the first candidate whose trial succeeds, or 0
FirstSuccess(candidates, draws) ==
    LET hits == {k \in 1..Len(candidates) : TrialSucceeds(candidates[k], draws[k])}
    IN  IF hits = {} THEN 0 ELSE CHOOSE k \in hits : \A m \in hits : k <= m

\* severity = min(5, max(1, int((30 - stability) / 5) + 1))
RiftSeverity(stability) == Min(5, Max(1, TruncDiv(RIFT_THRESHOLD - stability, 5000) + 1))

NoRift == [none |-> TRUE]

\* generate_time_rift: every result the draws of one call can give, with the
\* sorted candidates and the number of trials made
GenerateTimeRiftResults(hi, draws) ==
    LET candidates == TrialOrder(RiftCandidates(1, hi))
        selected == FirstSuccess(candidates, draws)
        tried == IF selected = 0 THEN Len(candidates) ELSE selected
        none == [found |-> FALSE, rift |-> NoRift, candidates |-> candidates, tried |-> tried]
    IN  IF candidates = <<>> \/ selected = 0 THEN {none}
        ELSE LET rs == TimelineRealms(candidates[selected].timeline_id)
             IN  IF rs = <<>> THEN {none}
                 ELSE {[found |-> TRUE,
                        rift |-> [location |-> [timeline_id |-> candidates[selected].timeline_id,
                                                realm_id |-> rs[r].realm_id,
                                                coordinates |-> [x |-> xy, y |-> 100 - xy]],
                                  severity |-> RiftSeverity(candidates[selected].stability),
                                  created_at_turn |-> current_turn,
                                  resolved |-> FALSE],
                        candidates |-> candidates, tried |-> tried] :
                          r \in 1..Len(rs), xy \in RandInt(0, 100)}

\* POST /generate-time-rift
GenerateTimeRift ==
    \E hi \in BOOLEAN, draws \in [1..Len(timelines) -> BOOLEAN] :
        \E result \in GenerateTimeRiftResults(hi, draws) :
            /\ TimelineStep([op |-> "generate_time_rift", after |-> outcome.op,
                             status |-> 200, found |-> result.found, rift |-> result.rift,
                             candidates |-> result.candidates, tried |-> result.tried])
            /\ UNCHANGED <<timelines, events_history, time_rifts>>

NextTimeline ==
    \/ GameAddEvent
    \/ \E t \in 1..Len(timelines) : TimelineAddEvent(t)
    \/ CreateTimeRift
    \/ ResolveTimeRift
    \/ \E t \in 1..Len(timelines) : CalculateStability(t)
    \/ DetectParadoxes
    \/ AnalyzeTimeline

SpecTimeline == InitTimeline /\ [][NextTimeline]_vars

\* games for the rift generator and the similarity measure: timeline_0 unstable
\* or not, event logs stored by add_event, and logs of a client in which an
\* event type repeats
RiftTimelineStates == {
    [stability |-> 25000, events |-> <<>>],
    [stability |-> 100000, events |-> <<[event_type |-> "battle", impact |-> [stability |-> -5]]>>],
    [stability |-> 100000, events |-> <<[type |-> "battle", outcome |-> "won"],
                                        [type |-> "battle", outcome |-> "won"]>>] }

InitRift ==
    /\ InitRest
    /\ InitKarmaState
    /\ request = NoRequest
    /\ players = <<Player("p1", 0)>>
    /\ realms \in Boards
    /\ \E s \in RiftTimelineStates :
           timelines = <<Timeline("timeline_0", s.stability,
                                  RealmIdsIn(realms, "timeline_0"), s.events),
                         Timeline("timeline_1", 100000,
                                  RealmIdsIn(realms, "timeline_1"), s.events)>>
    /\ \E g \in StartTroubles :
           /\ events_history = g.events_history
           /\ time_rifts = g.time_rifts
    /\ outcome = [op |-> Absent]
    /\ steps = 0

NextRift ==
    \/ \E t \in 1..Len(timelines) : TimelineAddEvent(t)
    \/ CalculateSimilarity
    \/ GenerateTimeRift

SpecRift == InitRift /\ [][NextRift]_vars

----------------------------------------------------------------------------
(* Claims on the timeline analyzer                                         *)

StabilityRange == StabilityLo..StabilityHi

\* C4: calculate_stability returns a value in [0, 100] whatever the stored
\* stability, rifts, paradoxes and events, and Timeline.add_event with a
\* stability impact leaves the stored stability in [0, 100].
C4_StabilityBounded ==
    /\ outcome.op = "calculate_stability" => outcome.stability \in StabilityRange
    /\ (outcome.op = "analyze_timeline" /\ "stability" \in DOMAIN outcome)
           => outcome.stability \in StabilityRange
    /\ (outcome.op = "timeline_add_event" /\ "stability" \in DOMAIN outcome.impact)
           => timelines[FindTimeline(outcome.timeline_id)].stability \in StabilityRange

\* C4 witness: calculate_stability on a timeline whose open rifts pull the sum
\* below 0 has returned 0
C4_Witness ==
    /\ outcome.op = "calculate_stability"
    /\ outcome.stability = StabilityLo
    /\ LET timeline == timelines[FindTimeline(outcome.timeline_id)]
       IN  \A hi \in BOOLEAN :
               timeline.stability
                   + StabilityChange(timeline, TimelineRealms(timeline.timeline_id), hi) < -100000

TechInversionsOf(paradoxes) == SelectSeq(paradoxes, LAMBDA p : p.type = "tech_inversion")

\* the unordered pairs of affected realms of a list of paradoxes
AffectedPairs(paradoxes) ==
    {{paradoxes[k].affected_realms[1], paradoxes[k].affected_realms[2]} :
         k \in 1..Len(paradoxes)}

Reordered(rs, order) == [k \in 1..Len(rs) |-> rs[order[k]]]

\* C8: detect_paradoxes reports exactly one tech_inversion for each unordered
\* pair of realms of the timeline whose levels differ by more than 3, with
\* severity difference / 2, none for the other pairs, and the same set of
\* pairs for every ordering of the realm list.
C8_OneInversionPerPair ==
    (outcome.op = "detect_paradoxes" /\ "paradoxes" \in DOMAIN outcome) =>
        LET rs == TimelineRealms(outcome.timeline_id)
            found == TechInversionsOf(outcome.paradoxes)
            gap(i, j) == Abs(rs[i].development_level - rs[j].development_level)
            hits(i, j) == {k \in 1..Len(found) :
                              {found[k].affected_realms[1], found[k].affected_realms[2]}
                                  = {rs[i].realm_id, rs[j].realm_id}}
            pairs == {p \in (1..Len(rs)) \X (1..Len(rs)) : p[1] < p[2]}
        IN  /\ \A p \in pairs :
                   IF gap(p[1], p[2]) > 3
                   THEN /\ Cardinality(hits(p[1], p[2])) = 1
                        /\ \A k \in hits(p[1], p[2]) :
                               2 * found[k].severity = SeverityUnit * gap(p[1], p[2])
                   ELSE hits(p[1], p[2]) = {}
            /\ Len(found) = Cardinality({p \in pairs : gap(p[1], p[2]) > 3})
            /\ \A order \in Permutations(1..Len(rs)) :
                   AffectedPairs(TechInversions(Reordered(rs, order))) = AffectedPairs(found)

\* C8 witness: realms of levels 2 and 9 in one timeline gave one tech_inversion
\* of severity 3.5
C8_Witness ==
    /\ outcome.op = "detect_paradoxes"
    /\ "paradoxes" \in DOMAIN outcome
    /\ LET rs == TimelineRealms(outcome.timeline_id)
           found == TechInversionsOf(outcome.paradoxes)
       IN  /\ Len(rs) = 2
           /\ {rs[1].development_level, rs[2].development_level} = {2, 9}
           /\ Len(found) = 1
           /\ 2 * found[1].severity = 7 * SeverityUnit

AnalysisOps == {"detect_paradoxes", "calculate_stability", "analyze_timeline"}

\* C9: detect_paradoxes, calculate_stability and predict_events (through
\* analyze_timeline) leave players, realms, timelines, events_history and
\* time_rifts as they were, and a detect_paradoxes call right after another on
\* the same timeline returns the same list.
C9_AnalysisChangesNothing ==
    [][outcome'.op \in AnalysisOps =>
          /\ gameVars' = gameVars
          /\ (/\ outcome'.op = "detect_paradoxes" /\ outcome.op = "detect_paradoxes"
              /\ outcome'.timeline_id = outcome.timeline_id)
                 => outcome'.status = outcome.status
                    /\ (outcome.status = 200 => outcome'.paradoxes = outcome.paradoxes)]_vars

\* C9 witness: a second detect_paradoxes in a row on a timeline with paradoxes
C9_Witness ==
    /\ outcome.op = "detect_paradoxes"
    /\ outcome.after = "detect_paradoxes"
    /\ outcome.status = 200
    /\ Len(outcome.paradoxes) >= 3

----------------------------------------------------------------------------
(* The board of a new game: realms and the timelines that list them        *)

MaxBoardOps == 2

\* Timeline.add_realm
AddRealm(timeline, realm_id) ==
    IF InSeq(realm_id, timeline.realms) THEN timeline
    ELSE [timeline EXCEPT !.realms = Append(@, realm_id)]

\* list.remove(x): the list without its first x
RECURSIVE RemoveFirst(_, _)
RemoveFirst(list, x) ==
    IF list = <<>> THEN <<>>
    ELSE IF Head(list) = x THEN Tail(list)
    ELSE <<Head(list)>> \o RemoveFirst(Tail(list), x)

\* Timeline.remove_realm
RemoveRealm(timeline, realm_id) ==
    IF InSeq(realm_id, timeline.realms) THEN [timeline EXCEPT !.realms = RemoveFirst(@, realm_id)]
    ELSE timeline

NewGameTimelineIds == <<"timeline_0", "timeline_1", "timeline_2">>

NewGameRealmIds ==
    <<"realm_0", "realm_1", "realm_2", "realm_3", "realm_4", "realm_5", "realm_6", "realm_7",
      "realm_8">>

\* the realms of create_new_game: realm i lies in timeline i // 3
NewGameRealms ==
    [i \in 1..9 |-> Realm(NewGameRealmIds[i], NewGameTimelineIds[((i - 1) \div 3) + 1], Absent,
                          1, "Balanced", 0, 50, 1000000)]

\* the timelines of create_new_game, after the loop that appends each realm id
\* to the timeline the realm names
NewGameTimelines ==
    [t \in 1..3 |-> Timeline(NewGameTimelineIds[t], 100000,
                             RealmIdsIn(NewGameRealms, NewGameTimelineIds[t]), <<>>)]

\* the game state create_new_game builds for two players
InitBoard ==
    /\ InitRest
    /\ InitKarmaState
    /\ request = NoRequest
    /\ players = <<Player("p1", 0), Player("p2", 0)>>
    /\ realms = NewGameRealms
    /\ timelines = NewGameTimelines
    /\ events_history = <<>>
    /\ time_rifts = <<>>
    /\ outcome = [op |-> Absent]
    /\ steps = 0

BoardStep(op, t, realm_id) ==
    /\ steps < MaxBoardOps
    /\ steps' = steps + 1
    /\ outcome' = [op |-> op, timeline_id |-> timelines[t].timeline_id, realm_id |-> realm_id]
    /\ UNCHANGED <<restVars, karmaVars, realms, players, events_history, time_rifts>>

TimelineAddRealm(t) ==
    \E realm_id \in {NewGameRealmIds[i] : i \in 1..9} \cup {"realm_new"} :
        /\ timelines' = [timelines EXCEPT ![t] = AddRealm(@, realm_id)]
        /\ BoardStep("add_realm", t, realm_id)

TimelineRemoveRealm(t) ==
    \E realm_id \in {NewGameRealmIds[i] : i \in 1..9} \cup {"realm_new"} :
        /\ timelines' = [timelines EXCEPT ![t] = RemoveRealm(@, realm_id)]
        /\ BoardStep("remove_realm", t, realm_id)

NextBoard ==
    \/ \E t \in 1..Len(timelines) : TimelineAddRealm(t)
    \/ \E t \in 1..Len(timelines) : TimelineRemoveRealm(t)
    \/ \E i \in 1..Len(realms) : TransferRealmOwnership(i)
    \/ \E i \in 1..Len(realms) : ProcessCulturalShift(i)

SpecBoard == InitBoard /\ [][NextBoard]_vars

SeqToSet(list) == {list[k] : k \in 1..Len(list)}

\* C12 (as claimed): every realm's timeline_id names a timeline of the game, and
\* each timeline's realms are exactly the ids of the realms that name it.
C12_RealmsMatchTimelines ==
    /\ \A i \in 1..Len(realms) :
           \E t \in 1..Len(timelines) : timelines[t].timeline_id = realms[i].timeline_id
    /\ \A t \in 1..Len(timelines) :
           SeqToSet(timelines[t].realms)
               = {realms[i].realm_id :
                      i \in {j \in 1..Len(realms) :
                                 realms[j].timeline_id = timelines[t].timeline_id}}

----------------------------------------------------------------------------
(* Player: karma and quests                                                *)

MaxPlayerOps == 3

\* a player with the quest and decision lists of the Player class
QuestPlayer(id, karma) ==
    [player_id |-> id, karma |-> karma, quest_history |-> <<>>, decision_history |-> <<>>]

\* Player.add_karma: `self.karma += amount` and the entry logged
WithKarma(player, amount, reason) ==
    [player EXCEPT !.karma = @ + amount,
                   !.decision_history = Append(@, [type |-> "karma_change", amount |-> amount,
                                                   reason |-> reason])]

\* Player.add_quest
WithQuest(player, quest_id, title) ==
    [player EXCEPT !.quest_history = Append(@, [quest_id |-> quest_id, title |-> title,
                                                status |-> "active"])]

\* the quest entry complete_quest leaves: three keys set
CompletedQuest(quest, quest_outcome, karma_reward) ==
    [k \in DOMAIN quest \cup {"outcome", "karma_reward"} |->
        IF k = "status" THEN "completed"
        ELSE IF k = "outcome" THEN quest_outcome
        ELSE IF k = "karma_reward" THEN karma_reward
        ELSE quest[k]]

\* the position of the first quest with this id whatever its status, or 0
ActiveQuestOfAnyStatus(player, quest_id) ==
    LET hits == {k \in 1..Len(player.quest_history) :
                     player.quest_history[k].quest_id = quest_id}
    IN  IF hits = {} THEN 0 ELSE CHOOSE k \in hits : \A m \in hits : k <= m

\* the position of the first active quest with this id, or 0
ActiveQuest(player, quest_id) ==
    LET active(k) == /\ player.quest_history[k].quest_id = quest_id
                     /\ player.quest_history[k].status = "active"
        hits == {k \in 1..Len(player.quest_history) : active(k)}
    IN  IF hits = {} THEN 0 ELSE CHOOSE k \in hits : \A m \in hits : k <= m

\* Player.complete_quest
WithQuestCompleted(player, quest_id, quest_outcome, karma_reward) ==
    LET k == ActiveQuest(player, quest_id)
    IN  IF k = 0 THEN player
        ELSE LET quest == player.quest_history[k]
                 done == [player EXCEPT
                              !.quest_history[k] = CompletedQuest(quest, quest_outcome,
                                                                  karma_reward)]
             IN  WithKarma(done, karma_reward, "Completed quest: " \o quest.title)

InitPlayer ==
    /\ InitRest
    /\ InitKarmaState
    /\ request = NoRequest
    /\ \E k \in {0, 95} : players = <<QuestPlayer("p1", k), QuestPlayer("p2", -k)>>
    /\ realms = <<>>
    /\ timelines = <<>>
    /\ events_history = <<>>
    /\ time_rifts = <<>>
    /\ outcome = [op |-> Absent]
    /\ steps = 0

PlayerStep(i, op, player) ==
    /\ steps < MaxPlayerOps
    /\ steps' = steps + 1
    /\ players' = [players EXCEPT ![i] = player]
    /\ outcome' = [op |-> op, player_id |-> players[i].player_id]
    /\ UNCHANGED <<restVars, karmaVars, realms, timelines, events_history, time_rifts>>

\* the amounts and rewards a caller passes
KarmaAmounts == {-50, -10, 3, 11, 50}

AddKarma(i) ==
    \E amount \in KarmaAmounts :
        PlayerStep(i, "add_karma", WithKarma(players[i], amount, "decision"))

AddQuest(i) ==
    \E quest_id \in {"q1", "q2"} :
        PlayerStep(i, "add_quest", WithQuest(players[i], quest_id, "Relay"))

CompleteQuest(i) ==
    \E quest_id \in {"q1", "q2"}, karma_reward \in KarmaAmounts :
        PlayerStep(i, "complete_quest",
                   WithQuestCompleted(players[i], quest_id, "success", karma_reward))

NextPlayer ==
    \/ \E i \in 1..Len(players) : AddKarma(i)
    \/ \E i \in 1..Len(players) : AddQuest(i)
    \/ \E i \in 1..Len(players) : CompleteQuest(i)

SpecPlayer == InitPlayer /\ [][NextPlayer]_vars

\* C13 (as claimed): every add_karma and complete_quest call changes the
\* player's karma by an amount in [-10, 10].
C13_KarmaChangeClamped ==
    [][\A i \in 1..Len(players) :
          players'[i].karma - players[i].karma \in KarmaLo..KarmaHi]_vars

----------------------------------------------------------------------------
(* Further claims on the timeline analyzer                                 *)

\* C14 (as claimed): every value calculate_timeline_similarity returns lies in
\* [0, 100], also for event logs in which an event type occurs several times
\* on both sides.
C14_SimilarityBounded ==
    (outcome.op = "calculate_timeline_similarity" /\ outcome.status = 200) =>
        outcome.similarity \in 0..100000

\* the stabilities calculate_stability can give for the timeline with this id
ComputedStabilities(timeline_id) ==
    {CalculateStabilityOf(timelines[FindTimeline(timeline_id)], TimelineRealms(timeline_id), hi) :
         hi \in BOOLEAN}

\* C15: a rift that generate_time_rift returns lies in a timeline whose computed
\* stability is below 30 and in a realm of that timeline, has a severity in
\* 1..5 and is unresolved; without a timeline below 30 nothing is returned; and
\* the trial of every candidate with a higher chance than the selected one was
\* made before and failed.
C15_RiftFromUnstableTimeline ==
    outcome.op = "generate_time_rift" =>
        /\ outcome.found =>
               LET rift == outcome.rift
                   selected == outcome.candidates[outcome.tried]
               IN  /\ rift.location.timeline_id = selected.timeline_id
                   /\ selected.stability < RIFT_THRESHOLD
                   /\ selected.stability \in ComputedStabilities(selected.timeline_id)
                   /\ \E r \in 1..Len(realms) :
                          /\ realms[r].realm_id = rift.location.realm_id
                          /\ realms[r].timeline_id = rift.location.timeline_id
                   /\ rift.severity \in 1..5
                   /\ rift.resolved = FALSE
                   /\ \A k \in 1..Len(outcome.candidates) :
                          outcome.candidates[k].chance > selected.chance => k < outcome.tried
        /\ (\A t \in 1..Len(timelines) :
                \A stability \in ComputedStabilities(timelines[t].timeline_id) :
                    stability >= RIFT_THRESHOLD)
               => ~outcome.found

\* C15 witness: two candidates, and the rift is in the second timeline of the
\* game, whose chance is the higher one
C15_Witness ==
    /\ outcome.op = "generate_time_rift"
    /\ outcome.found
    /\ Len(outcome.candidates) = 2
    /\ outcome.tried = 1
    /\ outcome.candidates[1].timeline_id = timelines[2].timeline_id
    /\ outcome.candidates[1].chance > outcome.candidates[2].chance

----------------------------------------------------------------------------
(* Two games served by the one KarmaCalculator of the process              *)

MaxGameCalls == 3

Games == {"game_A", "game_B"}

\* the evaluations the games submit
GameEvaluations == {Evaluation(score, Absent, "", "", "", Absent) : score \in {-4, 5}}

InitGames ==
    /\ InitKarmaState
    /\ request = NoRequest
    /\ NoGame

\* POST /evaluate-decision sent for a player of game g: the handler passes
\* player_id, decision and evaluation to the calculator, and nothing of the game
GameCall(g, p, decision, evaluation) ==
    /\ Len(returned) < MaxGameCalls
    /\ LET c == Calculate(player_action_history[p], decision, evaluation)
       IN  /\ player_action_history' = [player_action_history EXCEPT ![p] = c.history]
           /\ returned' = Append(returned, [game |-> g, player |-> p,
                                            karma_score |-> evaluation.karma_score,
                                            karma_impact |-> c.karma_impact,
                                            decision |-> decision,
                                            evaluation |-> evaluation])
    /\ UNCHANGED <<total_call, request, gameVars, outcome, steps, restVars>>

NextGames ==
    \E g \in Games, p \in Players, decision \in {"Help the settlers", "wait and watch"},
       evaluation \in GameEvaluations : GameCall(g, p, decision, evaluation)

SpecGames == InitGames /\ [][NextGames]_vars

\* the karma impacts the calls give when they are the only calls made, from an
\* empty history
RECURSIVE ImpactsAlone(_, _)
ImpactsAlone(history, calls) ==
    IF calls = <<>> THEN <<>>
    ELSE LET c == Calculate(history, Head(calls).decision, Head(calls).evaluation)
         IN  <<c.karma_impact>> \o ImpactsAlone(c.history, Tail(calls))

\* C16 (as claimed): what calculate returns for the decisions of a game is what
\* it returns when no call of another game is made, whatever player ids the
\* games use.
C16_GamesIndependent ==
    \A g \in Games, p \in Players :
        LET calls == SelectSeq(returned, LAMBDA r : r.game = g /\ r.player = p)
        IN  [k \in 1..Len(calls) |-> calls[k].karma_impact] = ImpactsAlone(<<>>, calls)

----------------------------------------------------------------------------
(* QuestModel: quests and quest outcomes built from the oracle's text      *)

MaxQuestOps == 2

\* a JSON or Python value whose type the code tests: t is "absent" (no such
\* key), "int", "str" or "nan"
Value(t, v) == [t |-> t, v |-> v]

NoValue == Value("absent", 0)

\* an entry of an options list; py is "dict", "str" or "None", id 0 and the
\* text Absent stand for a key the dict does not hold
Option(py, id, text, potential_outcome) ==
    [py |-> py, id |-> id, text |-> text, potential_outcome |-> potential_outcome]

NoneOption == Option("None", 0, Absent, Absent)

EmptyDict == Option("dict", 0, Absent, Absent)

\* a quest dict; Absent and NoValue stand for keys the dict does not hold
Quest(id, title, description, type, difficulty, options, player_id) ==
    [id |-> id, title |-> title, description |-> description, type |-> type,
     difficulty |-> difficulty, options |-> options, player_id |-> player_id]

OptionList(options) == [t |-> "list", v |-> options]

NoOptions == [t |-> "absent", v |-> <<>>]

\* str.find: the index from 0 of the first ch in text, -1 when there is none
Find(text, ch) ==
    LET at == {i \in 1..Len(text) : SubSeq(text, i, i) = ch}
    IN  IF at = {} THEN -1 ELSE (CHOOSE i \in at : \A j \in at : i <= j) - 1

\* str.rfind: the index from 0 of the last ch in text, -1 when there is none
RFind(text, ch) ==
    LET at == {i \in 1..Len(text) : SubSeq(text, i, i) = ch}
    IN  IF at = {} THEN -1 ELSE (CHOOSE i \in at : \A j \in at : i >= j) - 1

\* the slice the code hands to json.loads, or no slice
ExtractJson(text) ==
    LET json_start == Find(text, "{")
        json_end == RFind(text, "}") + 1
    IN  IF json_start >= 0 /\ json_end > json_start
        THEN Returned(SubSeq(text, json_start + 1, json_end))
        ELSE Raised("no JSON")

\* json.loads on the quest texts of the oracle
QuestJsonLoads(quest_json) ==
    CASE quest_json = "{}" ->
            Returned(Quest(Absent, Absent, Absent, Absent, NoValue, NoOptions, Absent))
      [] quest_json = "{\"type\": \"Puzzle\", \"difficulty\": 9, \"options\": []}" ->
            Returned(Quest(Absent, Absent, Absent, "Puzzle", Value("int", 9),
                           OptionList(<<>>), Absent))
      [] quest_json = "{\"title\": \"Rescue\", \"description\": \"Save the envoy\", \"type\": \"Ethical\", \"difficulty\": 3, \"options\": [{\"id\": 1, \"text\": \"go\"}, {\"text\": \"stay\"}]}" ->
            Returned(Quest(Absent, "Rescue", "Save the envoy", "Ethical", Value("int", 3),
                           OptionList(<<Option("dict", 1, "go", Absent),
                                        Option("dict", 0, "stay", Absent)>>), Absent))
      [] quest_json = "{\"title\": \"Heist\", \"difficulty\": \"hard\", \"options\": [\"go\"]}" ->
            Returned(Quest(Absent, "Heist", Absent, Absent, Value("str", 0),
                           OptionList(<<Option("str", 0, Absent, Absent)>>), Absent))
      [] OTHER -> Raised("JSONDecodeError")

\* what the quest chain answers: a text, or an exception
OracleText(text) == [raises |-> FALSE, text |-> text]

OracleException == [raises |-> TRUE, text |-> ""]

QuestOracle ==
    {OracleException} \cup
    {OracleText(text) : text \in
        {"", "A quest awaits you.", "{title: broken", "{\"title\": }", "{}",
         "{\"type\": \"Puzzle\", \"difficulty\": 9, \"options\": []}",
         "Here: {\"title\": \"Rescue\", \"description\": \"Save the envoy\", \"type\": \"Ethical\", \"difficulty\": 3, \"options\": [{\"id\": 1, \"text\": \"go\"}, {\"text\": \"stay\"}]} Enjoy.",
         "{\"title\": \"Heist\", \"difficulty\": \"hard\", \"options\": [\"go\"]}"}}

FallbackTitle(role) ==
    CASE role = "Techno Monk" -> "Balance of Innovation"
      [] role = "Shadow Broker" -> "Hidden Knowledge"
      [] role = "Chrono Diplomat" -> "Timeline Negotiation"
      [] role = "Bio-Smith" -> "Ecological Crisis"
      [] OTHER -> "Temporal Anomaly"

FallbackType(role) ==
    CASE role = "Techno Monk" -> "Ethical"
      [] role = "Shadow Broker" -> "Diplomatic"
      [] role = "Chrono Diplomat" -> "Diplomatic"
      [] role = "Bio-Smith" -> "Technical"
      [] OTHER -> "Temporal"

FallbackOptions ==
    <<Option("dict", 1, "Take direct action to resolve the issue immediately.",
             "Quick resolution but potential unforeseen consequences."),
      Option("dict", 2, "Gather more information before deciding on a course of action.",
             "Better understanding but the situation may worsen while you investigate."),
      Option("dict", 3, "Collaborate with other players to find a solution.",
             "Combined resources but shared responsibility for outcomes.")>>

\* _create_fallback_quest; the description is named by its title
CreateFallbackQuest(player_data) ==
    Quest("uuid", FallbackTitle(player_data.role), FallbackTitle(player_data.role),
          FallbackType(player_data.role), Value("int", 2), OptionList(FallbackOptions),
          player_data.id)

DefaultOptions ==
    <<Option("dict", 1, "Accept the challenge", "Unknown consequences await"),
      Option("dict", 2, "Decline the challenge", "Opportunity lost, but safety preserved")>>

valid_types == {"Ethical", "Technical", "Diplomatic", "Temporal", "General"}

ValidDifficulty(difficulty) == difficulty.t = "int" /\ difficulty.v >= 1 /\ difficulty.v <= 5

\* the last loop of _validate_quest, for the option at index i from 0
ValidOption(option, i) ==
    IF option.py # "dict"
    THEN Option("dict", i + 1, "Take action", "Unknown consequences")
    ELSE Option("dict",
                IF option.id = 0 THEN i + 1 ELSE option.id,
                IF option.text = Absent THEN "Option" ELSE option.text,
                IF option.potential_outcome = Absent THEN "Unknown consequences"
                ELSE option.potential_outcome)

\* _validate_quest
ValidateQuest(quest) ==
    LET title == IF quest.title = Absent THEN "Mysterious Quest" ELSE quest.title
        description == IF quest.description = Absent
                       THEN "A mysterious challenge awaits you." ELSE quest.description
        type == IF quest.type = Absent \/ quest.type \notin valid_types
                THEN "General" ELSE quest.type
        difficulty == IF ValidDifficulty(quest.difficulty) THEN quest.difficulty
                      ELSE Value("int", 2)
        options == IF quest.options.t # "list" \/ Len(quest.options.v) = 0
                   THEN DefaultOptions ELSE quest.options.v
    IN  Quest(quest.id, title, description, type, difficulty,
              OptionList([i \in 1..Len(options) |-> ValidOption(options[i], i - 1)]),
              quest.player_id)

\* generate_quest
GenerateQuestResult(player_data, oracle) ==
    IF oracle.raises THEN CreateFallbackQuest(player_data)
    ELSE LET slice == ExtractJson(oracle.text)
             loaded == QuestJsonLoads(slice.value)
             quest == IF slice.raised \/ loaded.raised
                      THEN CreateFallbackQuest(player_data) ELSE loaded.value
         IN  ValidateQuest([quest EXCEPT !.id = "uuid", !.player_id = player_data.id])

\* json.loads on the outcome texts of the oracle: the karma_impact it holds
OutcomeJsonLoads(outcome_json) ==
    CASE outcome_json = "{}" -> Returned(NoValue)
      [] outcome_json = "{\"karma_impact\": 50}" -> Returned(Value("int", 50))
      [] outcome_json = "{\"karma_impact\": -3, \"outcome_description\": \"The envoy is safe\"}" ->
            Returned(Value("int", -3))
      [] outcome_json = "{\"karma_impact\": \"high\"}" -> Returned(Value("str", 0))
      [] outcome_json = "{\"karma_impact\": NaN}" -> Returned(Value("nan", 0))
      [] OTHER -> Raised("JSONDecodeError")

OutcomeOracle ==
    {OracleException} \cup
    {OracleText(text) : text \in
        {"", "The quest ends well.", "{oops}", "{}", "{\"karma_impact\": 50}",
         "Result: {\"karma_impact\": -3, \"outcome_description\": \"The envoy is safe\"}",
         "{\"karma_impact\": \"high\"}", "{\"karma_impact\": NaN}"}}

karma_range == <<-10, 10>>

\* min(a, bound) of Python: the first argument unless the second is less; a
\* comparison with NaN is false, one with a str raises TypeError
PyMin(a, bound) == IF a.t = "int" /\ bound < a.v THEN Value("int", bound) ELSE a

PyMax(a, bound) == IF a.t = "int" /\ bound > a.v THEN Value("int", bound) ELSE a

\* max(min(outcome.get("karma_impact", 0), karma_range[1]), karma_range[0])
BoundKarmaImpact(karma_impact) ==
    LET got == IF karma_impact.t = "absent" THEN Value("int", 0) ELSE karma_impact
    IN  IF got.t = "str" THEN Raised("TypeError")
        ELSE Returned(PyMax(PyMin(got, karma_range[2]), karma_range[1]))

\* _create_fallback_outcome: selected_option.get fails on None
CreateFallbackOutcome(quest, selected_option) ==
    IF selected_option.py # "dict" THEN Raised("AttributeError")
    ELSE Returned([karma_impact |-> Value("int", 0), fallback |-> TRUE])

\* the loop that looks for the option with the selected id; option.get fails on
\* an entry that is no dict
RECURSIVE FindOption(_, _)
FindOption(options, selected_option_id) ==
    IF options = <<>> THEN Returned(NoneOption)
    ELSE IF Head(options).py # "dict" THEN Raised("AttributeError")
    ELSE IF Head(options).id = selected_option_id THEN Returned(Head(options))
    ELSE FindOption(Tail(options), selected_option_id)

\* `not selected_option`: None, or a dict without keys
Falsy(option) == option.py = "None" \/ option = EmptyDict

\* quest.get("options", [{}])[0]
FirstOption(quest) ==
    IF quest.options.t = "absent" THEN Returned(EmptyDict)
    ELSE IF Len(quest.options.v) = 0 THEN Raised("IndexError")
    ELSE Returned(quest.options.v[1])

\* evaluate_quest_outcome
EvaluateQuestOutcomeResult(quest, selected_option_id, player_data, oracle) ==
    LET found == FindOption(quest.options.v, selected_option_id)
        first == FirstOption(quest)
        \* selected_option when the code leaves the search, and whether it left
        \* it by an exception
        search == IF found.raised THEN Raised(NoneOption)
                  ELSE IF ~Falsy(found.value) THEN found
                  ELSE IF first.raised THEN Raised(found.value)
                  ELSE first
        selected_option == search.value
        slice == ExtractJson(oracle.text)
        loaded == OutcomeJsonLoads(slice.value)
        parsed == IF slice.raised \/ loaded.raised
                  THEN CreateFallbackOutcome(quest, selected_option).value.karma_impact
                  ELSE loaded.value
        bounded == BoundKarmaImpact(parsed)
    IN  IF search.raised \/ oracle.raises \/ bounded.raised
        THEN CreateFallbackOutcome(quest, selected_option)
        ELSE Returned([karma_impact |-> bounded.value, fallback |-> FALSE,
                       quest_id |-> quest.id, selected_option_id |-> selected_option_id,
                       player_id |-> player_data.id])

PlayerData == {[id |-> id, role |-> role] : id \in Players, role \in {"Techno Monk", "Architect"}}

\* the quests handed to evaluate_quest_outcome besides generated ones
StoredQuests ==
    {Quest("q1", "Rescue", "Save the envoy", "Ethical", Value("int", 3), options, "p1") :
        options \in {NoOptions, OptionList(<<>>),
                     OptionList(<<Option("dict", 1, "go", Absent),
                                  Option("dict", 2, "stay", Absent)>>)}}

InitQuest ==
    /\ InitKarmaState
    /\ request = NoRequest
    /\ NoGame

QuestStep(result) ==
    /\ steps < MaxQuestOps
    /\ steps' = steps + 1
    /\ outcome' = result
    /\ UNCHANGED <<restVars, karmaVars, realms, players, timelines, events_history, time_rifts>>

GenerateQuest ==
    \E player_data \in PlayerData, oracle \in QuestOracle :
        QuestStep([op |-> "generate_quest",
                   result |-> Returned(GenerateQuestResult(player_data, oracle))])

\* on a stored quest, or on the quest generate_quest has just returned
EvaluateQuestOutcome ==
    \E quest \in StoredQuests \cup
                 (IF outcome.op = "generate_quest" THEN {outcome.result.value} ELSE {}),
       selected_option_id \in {1, 2, 7}, player_data \in PlayerData,
       oracle \in OutcomeOracle :
        QuestStep([op |-> "evaluate_quest_outcome", quest |-> quest,
                   result |-> EvaluateQuestOutcomeResult(quest, selected_option_id,
                                                         player_data, oracle)])

NextQuest ==
    \/ GenerateQuest
    \/ EvaluateQuestOutcome

SpecQuest == InitQuest /\ [][NextQuest]_vars

\* what generate_quest promises of the quest it returns
GeneratedQuestValid ==
    outcome.op = "generate_quest" =>
        /\ ~outcome.result.raised
        /\ outcome.result.value.title # Absent
        /\ outcome.result.value.description # Absent
        /\ outcome.result.value.type \in valid_types
        /\ ValidDifficulty(outcome.result.value.difficulty)
        /\ outcome.result.value.options.t = "list"
        /\ Len(outcome.result.value.options.v) > 0

\* what evaluate_quest_outcome promises of the outcome it returns
QuestOutcomeValid ==
    outcome.op = "evaluate_quest_outcome" =>
        /\ ~outcome.result.raised
        /\ outcome.result.value.karma_impact.t = "int"
        /\ outcome.result.value.karma_impact.v \in karma_range[1]..karma_range[2]

\* C17 (as claimed): generate_quest and evaluate_quest_outcome return a record,
\* whatever the oracle answers and whatever quest and option id they are given;
\* the quest has a title, a description, a valid type, an integer difficulty
\* in 1..5 and at least one option, and the outcome a karma_impact in -10..10.
C17_QuestModelNeverRaises == GeneratedQuestValid /\ QuestOutcomeValid

----------------------------------------------------------------------------
(* Requests that name a timeline, a game or a player                       *)

\* the id of the game the store holds
game_id == "game_1"

GameIds == {"game_1", "game_9"}

PlayerIds == {"p1", "p9"}

\* GET /game/{game_id}: the HTTPException with status 404 is raised inside the
\* handler's try, caught by its `except Exception` and answered as status 500
GetGame ==
    \E id \in GameIds :
        /\ TimelineStep([op |-> "get_game", after |-> outcome.op, game_id |-> id,
                         status |-> IF id = game_id THEN 200 ELSE 500])
        /\ UNCHANGED <<timelines, events_history, time_rifts>>

\* GET /player/{player_id}: as get_game
GetPlayer ==
    \E player_id \in PlayerIds :
        /\ TimelineStep([op |-> "get_player", after |-> outcome.op, player_id |-> player_id,
                         status |-> IF HasPlayer(player_id, players) THEN 200 ELSE 500])
        /\ UNCHANGED <<timelines, events_history, time_rifts>>

NextLookup ==
    \/ DetectParadoxes
    \/ AnalyzeTimeline
    \/ GetGame
    \/ GetPlayer

SpecLookup == InitTimeline /\ [][NextLookup]_vars

\* the request just answered names a timeline, game or player that is absent
NamesAbsent ==
    \/ /\ outcome.op \in {"detect_paradoxes", "analyze_timeline"}
       /\ FindTimeline(outcome.timeline_id) = 0
    \/ /\ outcome.op = "get_game"
       /\ outcome.game_id # game_id
    \/ /\ outcome.op = "get_player"
       /\ ~HasPlayer(outcome.player_id, players)

\* C18 (as claimed): a request that names an absent timeline, game or player is
\* answered with the not-found status 404, never with success or status 500.
C18_AbsentIsNotFound == NamesAbsent => outcome.status = 404

----------------------------------------------------------------------------
(* Timelines that hold no realm                                            *)

NextEmpty ==
    \/ AnalyzeTimeline
    \/ \E t \in 1..Len(timelines) : CalculateStability(t)
    \/ CalculateSimilarity

SpecEmpty == InitTimeline /\ [][NextEmpty]_vars

\* the timeline of the game with this id holds no realm
Realmless(timeline_id) == TimelineRealms(timeline_id) = <<>>

\* C19: for a timeline without realms the technology disparity and the ethical
\* alignment of its analysis are 0, its similarity to any timeline is 0, and
\* its stability is computed and lies in 0..100.
C19_EmptyRealmList ==
    /\ (/\ outcome.op = "analyze_timeline"
        /\ FindTimeline(outcome.timeline_id) # 0
        /\ outcome.status = 200
        /\ Realmless(outcome.timeline_id))
           => /\ outcome.tech_disparity = 0
              /\ outcome.ethical_alignment = 0
              /\ outcome.stability \in StabilityRange
    /\ (/\ outcome.op = "calculate_stability"
        /\ Realmless(outcome.timeline_id))
           => outcome.stability \in StabilityRange
    /\ (/\ outcome.op = "calculate_timeline_similarity"
        /\ (Realmless(outcome.timeline_id) \/ Realmless(outcome.other_id)))
           => /\ outcome.status = 200
              /\ outcome.similarity = 0

\* the similarity of a timeline with realms and events to one that shares its
\* events and has no realms
C19_Witness ==
    /\ outcome.op = "calculate_timeline_similarity"
    /\ ~Realmless(outcome.timeline_id)
    /\ Realmless(outcome.other_id)
    /\ timelines[FindTimeline(outcome.timeline_id)].events # <<>>
    /\ outcome.after = "analyze_timeline"

----------------------------------------------------------------------------
(* The events history of a game under repeated add_event                   *)

MaxEventCalls == 7

\* a game that has recorded no event yet
InitEvents ==
    /\ InitKarmaState
    /\ request = NoRequest
    /\ NoGame

\* GameState.add_event, called up to MaxEventCalls times
AddEvent ==
    \E event \in {GameEvent(<<"realm_0", "realm_2">>, -10), GameEvent(<<"realm_1">>, 10)} :
        /\ steps < MaxEventCalls
        /\ steps' = steps + 1
        /\ events_history' = Append(events_history, event)
        /\ outcome' = [op |-> "add_event", after |-> outcome.op]
        /\ UNCHANGED <<restVars, karmaVars, players, realms, timelines, time_rifts>>

NextEvents == AddEvent

SpecEvents == InitEvents /\ [][NextEvents]_vars

\* C20 (as claimed): events_history has a fixed maximum length, which no number
\* of add_event calls exceeds; stated for a maximum below the number of calls
\* that are made.
C20_EventsHistoryBounded == Len(events_history) < MaxEventCalls

----------------------------------------------------------------------------
(* Further claims on the realm manager                                     *)

\* C21 (as claimed): one update_realm call raises the development level of the
\* realm by at most one.
C21_AtMostOneLevelPerUpdate ==
    [][outcome'.op = "update_realm" =>
          \A i \in 1..Len(realms) :
              realms'[i].development_level <= realms[i].development_level + 1]_vars

----------------------------------------------------------------------------
(* Further claims on the karma calculator                                  *)

\* C22 (as claimed): the category recorded in the history entry of a calculate
\* call is the category its consecutive count was computed with. The first call
\* of a player computes no count; histories stay below the cap in these runs,
\* so the j-th entry of a player is the entry of the player's j-th call.
C22_RecordedCategoryIsCountedCategory ==
    \A p \in Players :
        \A j \in 2..Len(player_action_history[p]) :
            player_action_history[p][j].category =
                CurrentCategory(player_action_history[p][j].decision,
                                ReturnedFor(p)[j].karma_score)

----------------------------------------------------------------------------
(* Cross-timeline contamination while the events history grows             *)

MaxContaminationEvents == 17

\* three realms, each in a timeline of its own
ContaminationBoard ==
    Board(<<2, 9, 5>>, <<-800, 900, 100>>, <<"timeline_0", "timeline_1", "timeline_2">>)

\* the n-th event a game records: events over two timelines, over three, inside
\* one timeline, and naming a realm the game does not hold
ScriptEvent(script, n) ==
    CASE script = "first" ->
            IF n = 1 THEN GameEvent(<<"realm_0", "realm_1">>, -10)
            ELSE GameEvent(<<"realm_1">>, 10)
      [] script = "tenth" ->
            IF n \in {1, 10} THEN GameEvent(<<"realm_0", "realm_1", "realm_2">>, -10)
            ELSE GameEvent(<<"realm_1">>, 10)
      [] script = "all" -> GameEvent(<<"realm_1", "realm_0">>, -3)
      [] script = "outside" ->
            IF n % 2 = 1 THEN GameEvent(<<"realm_2", "realm_7">>, 0)
            ELSE GameEvent(<<"realm_0", "realm_1">>, 5)
      [] OTHER -> GameEvent(<<"realm_1">>, 10)

EventScripts == {"first", "tenth", "all", "outside", "quiet"}

InitContamination ==
    /\ InitRest
    /\ InitKarmaState
    /\ request \in [script : EventScripts]
    /\ players = <<Player("p1", 0)>>
    /\ realms = ContaminationBoard
    /\ timelines = [k \in 1..3 |->
                       Timeline(ContaminationBoard[k].timeline_id, 100000,
                                <<ContaminationBoard[k].realm_id>>, <<>>)]
    /\ events_history = <<>>
    /\ time_rifts = <<>>
    /\ outcome = [op |-> Absent]
    /\ steps = 0

\* GameState.add_event with the next event of the script
AddScriptedEvent ==
    /\ Len(events_history) < MaxContaminationEvents
    /\ events_history' = Append(events_history,
                                ScriptEvent(request.script, Len(events_history) + 1))
    /\ UNCHANGED <<restVars, karmaVars, players, realms, timelines, time_rifts, outcome, steps>>

\* detect_paradoxes for a timeline of the game; `seen` is the length of
\* events_history at the call
DetectContamination ==
    \E t \in 1..Len(timelines) :
        /\ outcome' = [op |-> "detect_paradoxes",
                       timeline_id |-> timelines[t].timeline_id,
                       seen |-> Len(events_history),
                       paradoxes |-> DetectParadoxesOf(timelines[t],
                                         TimelineRealms(timelines[t].timeline_id))]
        /\ UNCHANGED <<restVars, karmaVars, players, realms, timelines, events_history, time_rifts,
                       steps>>

NextContamination ==
    \/ AddScriptedEvent
    \/ DetectContamination

SpecContamination == InitContamination /\ [][NextContamination]_vars

\* the timelines of the game's realms that an event names
Spanned(event) ==
    {realms[i].timeline_id : i \in {i \in 1..Len(realms) :
         \E k \in 1..Len(event.affected_realms) :
             event.affected_realms[k] = realms[i].realm_id}}

\* the positions, among the last 15 of the `seen` first events, of the events
\* that span more than one timeline, `timeline_id` among them
Contaminating(timeline_id, seen) ==
    {k \in 1..seen :
        /\ k > seen - 15
        /\ Cardinality(Spanned(events_history[k])) > 1
        /\ timeline_id \in Spanned(events_history[k])}

\* the j-th smallest element of a set of numbers
Nth(set, j) == CHOOSE k \in set : Cardinality({m \in set : m < k}) = j - 1

ContaminationParadoxes ==
    SelectSeq(outcome.paradoxes, LAMBDA x : x.type = "cross_timeline_contamination")

\* C23: detect_paradoxes returns one cross_timeline_contamination paradox, of
\* severity 1.5 times the number of timelines spanned, for each of the last 15
\* events that spans several timelines with the analysed one among them, in the
\* order of the events, and none for any other event.
C23_ContaminationOfLastFifteen ==
    outcome.op = "detect_paradoxes" =>
        LET expected == Contaminating(outcome.timeline_id, outcome.seen)
            found == ContaminationParadoxes
        IN  /\ Len(found) = Cardinality(expected)
            /\ \A j \in 1..Len(found) :
                   LET spanned == Spanned(events_history[Nth(expected, j)])
                   IN  /\ found[j].affected_timelines = spanned
                       /\ 2 * found[j].severity = 3 * SeverityUnit * Cardinality(spanned)

\* sixteen events were recorded, the first and the tenth over three timelines:
\* the analysis reports the tenth only
C23_Witness ==
    /\ outcome.op = "detect_paradoxes"
    /\ outcome.seen = 16
    /\ outcome.timeline_id = "timeline_2"
    /\ Cardinality(Spanned(events_history[1])) = 3
    /\ Len(ContaminationParadoxes) = 1

\* C24 (as claimed): calculate_timeline_similarity completes without raising
\* for two timelines that each hold a realm, event logs written by
\* Timeline.add_event included.
C24_SimilarityNeverRaises ==
    (/\ outcome.op = "calculate_timeline_similarity"
     /\ TimelineRealms(outcome.timeline_id) # <<>>
     /\ TimelineRealms(outcome.other_id) # <<>>)
        => outcome.status = 200

----------------------------------------------------------------------------
(* GameState.advance_turn                                                  *)

MaxTurns == 40

\* games with no player, one player, two and three players
TurnPlayers ==
    {<<>>, <<Player("p1", 0)>>, <<Player("p1", 0), Player("p2", 0)>>,
     <<Player("p1", 0), Player("p2", 0), Player("p3", 0)>>}

InitTurn ==
    /\ InitRest
    /\ InitKarmaState
    /\ request = NoRequest
    /\ players \in TurnPlayers
    /\ realms = <<>>
    /\ timelines = <<>>
    /\ events_history = <<>>
    /\ time_rifts = <<>>
    /\ outcome = [op |-> Absent]
    /\ steps = 0

\* GameState.advance_turn: current_turn is incremented first; the remainder by
\* len(self.players) raises ZeroDivisionError when the game has no player and
\* leaves current_player_index as it was
AdvanceTurn ==
    /\ current_turn < MaxTurns
    /\ current_turn' = current_turn + 1
    /\ current_player_index' =
           IF Len(players) = 0 THEN current_player_index
           ELSE (current_player_index + 1) % Len(players)
    /\ outcome' = [op |-> "advance_turn", raised |-> Len(players) = 0,
                   turn_before |-> current_turn, index_before |-> current_player_index]
    /\ UNCHANGED <<karmaVars, gameVars, steps, cache, store, acknowledged, tasks,
                   updates>>

NextTurn == AdvanceTurn

SpecTurn == InitTurn /\ [][NextTurn]_vars

\* C25 (as claimed): advance_turn does not raise, whatever the number of
\* players; it adds one to current_turn and moves current_player_index to the
\* next index of players, cyclically, so that it stays a valid index.
C25_AdvanceTurnNeverRaises ==
    outcome.op = "advance_turn" =>
        /\ ~outcome.raised
        /\ current_turn = outcome.turn_before + 1
        /\ current_player_index \in 0..(Len(players) - 1)
        /\ current_player_index = (outcome.index_before + 1) % Len(players)

----------------------------------------------------------------------------
(* A realm updated turn after turn                                         *)

MaxUpdates == 4

InitDevelop ==
    /\ InitRest
    /\ InitKarmaState
    /\ request = NoRequest
    /\ \E r \in StartRealms : realms = <<r>>
    /\ players = <<Player("p1", 7), Player("p2", 1500)>>
    /\ timelines = <<Timeline("timeline_0", 100000, <<"realm_0">>, <<>>)>>
    /\ events_history = <<GameEvent(<<"realm_9">>, -10)>>
    /\ time_rifts = <<>>
    /\ outcome = [op |-> Absent]
    /\ steps = 0

\* RealmManager.update_realm, called up to MaxUpdates times; the resource and
\* population variations are drawn at the middle of their ranges
RepeatedUpdate(i) ==
    \E hi \in BOOLEAN, v_dev \in Uniform(85, 115) :
        /\ updates < MaxUpdates
        /\ updates' = updates + 1
        /\ realms' = [realms EXCEPT ![i] = UpdatedRealm(realms[i], hi, 100, 100, v_dev)]
        /\ outcome' = [op |-> "update_realm", realm_id |-> realms[i].realm_id,
                       effects |-> [updated |-> TRUE]]
        /\ UNCHANGED <<karmaVars, players, timelines, events_history, time_rifts, steps,
                       current_turn, current_player_index, cache, store, acknowledged,
                       tasks>>

MaxLaterEvents == 1

\* the heaviest events process_realm_event is handed: a disaster, a discovery
\* of negative importance, a loss of population
LaterEvents(realm) ==
    {[op |-> "disaster", result |-> Disaster(realm, [severity |-> 40], 20, 2000)],
     [op |-> "discovery", result |-> Discovery(realm, [importance |-> -20], 15, 20)],
     [op |-> "population_change",
      result |-> PopulationChangeEvent(realm, [amount |-> -5000000])]}

\* RealmManager.process_realm_event on a realm that has reached level 10
LaterEvent(i) ==
    \E e \in LaterEvents(realms[i]) :
        /\ realms[i].development_level = 10
        /\ steps < MaxLaterEvents
        /\ steps' = steps + 1
        /\ realms' = [realms EXCEPT ![i] = e.result.realm]
        /\ outcome' = [op |-> e.op, realm_id |-> realms[i].realm_id,
                       effects |-> e.result.effects]
        /\ UNCHANGED <<restVars, karmaVars, players, timelines, events_history, time_rifts>>

NextDevelop ==
    \/ \E i \in 1..Len(realms) : RepeatedUpdate(i)
    \/ \E i \in 1..Len(realms) : LaterEvent(i)

\* The caller repeats update_realm: a further call is always taken while the
\* budget of calls lasts (updates counts the calls made so far).
UpdateCalled == updates < MaxUpdates /\ updates' = updates + 1

SpecDevelop ==
    InitDevelop /\ [][NextDevelop]_vars /\ WF_updates(UpdateCalled)

AtTopLevel == \A i \in 1..Len(realms) : realms[i].development_level = 10

----------------------------------------------------------------------------
(* GameData: the cache of game states and the database behind it           *)

MaxStoreOps == 3

StoredGameIds == {"game_1", "game_2"}

SavedTurns == {1, 2}

\* a game state, as far as saving and loading tell states apart
SavedGame(id, turn) == [game_id |-> id, current_turn |-> turn]

NoGameState == [game_id |-> Absent, current_turn |-> 0]

\* the game data manager starts with an empty cache; the database holds no
\* game or an earlier state of game_1
NoGames == [id \in {} |-> NoGameState]

InitStore ==
    /\ current_turn = 0
    /\ current_player_index = 0
    /\ cache = NoGames
    /\ store \in {NoGames, [id \in {"game_1"} |-> SavedGame("game_1", 0)]}
    /\ acknowledged = {}
    /\ tasks = <<>>
    /\ updates = 0
    /\ InitKarmaState
    /\ request = NoRequest
    /\ realms = <<>>
    /\ players = <<>>
    /\ timelines = <<>>
    /\ events_history = <<>>
    /\ time_rifts = <<>>
    /\ outcome = [op |-> Absent]
    /\ steps = 0

\* d[key] = value on a dict
DictSet(d, key, value) ==
    [k \in DOMAIN d \cup {key} |-> IF k = key THEN value ELSE d[k]]

\* save_game: `self.cache["game_states"][game_state.game_id] = game_state`
\* comes before `success = await save_game_state(game_data)`
SaveGameCache(game_state, success) ==
    DictSet(cache, game_state.game_id, game_state)

\* GameData.save_game; success is what save_game_state returns: False without
\* a database client, on an exception of the driver or on an unacknowledged
\* write, True after update_one(..., upsert=True)
SaveGame ==
    \E id \in StoredGameIds, turn \in SavedTurns, success \in BOOLEAN :
        LET game_state == SavedGame(id, turn)
        IN  /\ steps < MaxStoreOps
            /\ steps' = steps + 1
            /\ cache' = SaveGameCache(game_state, success)
            /\ store' = IF success THEN DictSet(store, id, game_state) ELSE store
            /\ acknowledged' = IF success THEN acknowledged \cup {game_state}
                               ELSE acknowledged
            /\ outcome' = [op |-> "save_game", game_id |-> id, state |-> game_state,
                           success |-> success]
            /\ UNCHANGED <<karmaVars, gameVars, current_turn, current_player_index,
                           tasks, updates>>

\* GameData.get_game: the cached state if there is one, else the state found
\* in the database, which is then cached; None if neither holds the game
LoadGame ==
    \E id \in StoredGameIds :
        /\ steps < MaxStoreOps
        /\ steps' = steps + 1
        /\ IF id \in DOMAIN cache
           THEN /\ outcome' = [op |-> "get_game", game_id |-> id, state |-> cache[id],
                               success |-> TRUE]
                /\ UNCHANGED <<cache, acknowledged>>
           ELSE IF id \in DOMAIN store
           THEN /\ outcome' = [op |-> "get_game", game_id |-> id, state |-> store[id],
                               success |-> TRUE]
                /\ cache' = DictSet(cache, id, store[id])
                /\ acknowledged' = acknowledged \cup {store[id]}
           ELSE /\ outcome' = [op |-> "get_game", game_id |-> id, state |-> NoGameState,
                               success |-> FALSE]
                /\ UNCHANGED <<cache, acknowledged>>
        /\ UNCHANGED <<karmaVars, gameVars, current_turn, current_player_index,
                       store, tasks, updates>>

NextStore == SaveGame \/ LoadGame

SpecStore == InitStore /\ [][NextStore]_vars

\* C27: a game state that get_game returns was loaded from the store or was
\* saved by a save_game call whose store write succeeded.
C27_ReturnedStateIsStored ==
    (outcome.op = "get_game" /\ outcome.success) => outcome.state \in acknowledged

----------------------------------------------------------------------------
(* Player: completing a quest more than once                               *)

QuestIds == {"q1", "q2"}

HasQuest(player, quest_id) ==
    \E k \in 1..Len(player.quest_history) : player.quest_history[k].quest_id = quest_id

QuestLogStep(i, op, quest_id, karma_reward, player) ==
    /\ steps < MaxPlayerOps
    /\ steps' = steps + 1
    /\ players' = [players EXCEPT ![i] = player]
    /\ outcome' = [op |-> op, player_id |-> players[i].player_id, quest_id |-> quest_id,
                   karma_reward |-> karma_reward]
    /\ UNCHANGED <<restVars, karmaVars, realms, timelines, events_history, time_rifts>>

\* Player.add_quest with an id the player does not hold yet
StartQuest(i) ==
    \E quest_id \in QuestIds :
        /\ ~HasQuest(players[i], quest_id)
        /\ QuestLogStep(i, "add_quest", quest_id, 0,
                        WithQuest(players[i], quest_id, "Relay"))

\* Player.complete_quest with any id, held or not, active or completed
FinishQuest(i) ==
    \E quest_id \in QuestIds, karma_reward \in KarmaAmounts :
        QuestLogStep(i, "complete_quest", quest_id, karma_reward,
                     WithQuestCompleted(players[i], quest_id, "success", karma_reward))

NextQuestLog ==
    \/ \E i \in 1..Len(players) : StartQuest(i)
    \/ \E i \in 1..Len(players) : FinishQuest(i)

SpecQuestLog == InitPlayer /\ [][NextQuestLog]_vars

\* the number of karma changes logged for completed quests
QuestKarmaChanges(player) ==
    Cardinality({k \in 1..Len(player.decision_history) :
                     player.decision_history[k].reason = "Completed quest: Relay"})

CompletedQuests(player) ==
    {k \in 1..Len(player.quest_history) : player.quest_history[k].status = "completed"}

\* what one complete_quest call does to the player it is made on
CompletedOnce(before, after, quest_id, karma_reward) ==
    LET k == IF \E j \in 1..Len(before.quest_history) :
                    /\ before.quest_history[j].quest_id = quest_id
                    /\ before.quest_history[j].status = "active"
             THEN CHOOSE j \in 1..Len(before.quest_history) :
                      /\ before.quest_history[j].quest_id = quest_id
                      /\ before.quest_history[j].status = "active"
             ELSE 0
    IN  IF k = 0 THEN after = before
        ELSE /\ after.karma = before.karma + karma_reward
             /\ Len(after.quest_history) = Len(before.quest_history)
             /\ after.quest_history[k].status = "completed"
             /\ after.quest_history[k].karma_reward = karma_reward
             /\ \A j \in 1..Len(before.quest_history) :
                    j # k => after.quest_history[j] = before.quest_history[j]

\* C28: with distinct quest ids, a complete_quest call on an active quest marks
\* it completed and adds karma_reward once; a call for a completed or unknown
\* id leaves the player as it was; so each quest id changes karma at most once.
C28_QuestRewardedOnce ==
    /\ [][outcome'.op = "complete_quest" =>
            \A i \in 1..Len(players) :
                IF players[i].player_id = outcome'.player_id
                THEN CompletedOnce(players[i], players'[i], outcome'.quest_id,
                                   outcome'.karma_reward)
                ELSE players'[i] = players[i]]_vars
    /\ [](\A i \in 1..Len(players) :
              /\ QuestKarmaChanges(players[i]) = Cardinality(CompletedQuests(players[i]))
              /\ \A q \in QuestIds :
                     Cardinality({k \in 1..Len(players[i].quest_history) :
                                      players[i].quest_history[k].quest_id = q}) <= 1)

\* a second complete_quest call, with another reward, on a quest already completed
C28_Witness ==
    /\ outcome.op = "complete_quest"
    /\ \E i \in 1..Len(players) :
           /\ players[i].player_id = outcome.player_id
           /\ \E k \in CompletedQuests(players[i]) :
                  /\ players[i].quest_history[k].quest_id = outcome.quest_id
                  /\ players[i].quest_history[k].karma_reward # outcome.karma_reward

----------------------------------------------------------------------------
(* TimelineAnalyzer.predict_events on any stability and any paradox list    *)

\* stabilities of [0, 100], in thousandths
PredictStabilities == {0, 15000, 29000, 45000, 50000, 75000, 100000}

PredictParadoxes ==
    {<<>>,
     <<Paradox("tech_disparity", 600 * 2, <<"realm_0", "realm_1">>, <<>>)>>,
     <<Paradox("ethical_contradiction", 600 * 3, <<"realm_0", "realm_1">>, <<>>),
       Paradox("cross_timeline_contamination", 900 * 2, <<>>,
               <<"timeline_0", "timeline_1">>)>>}

\* predict_events called with a stability and a paradox list of the caller's
PredictCall ==
    \E t \in 1..Len(timelines), stability \in PredictStabilities,
       paradoxes \in PredictParadoxes, rift_drawn \in BOOLEAN, hi \in BOOLEAN :
        LET potential_events == PredictEvents(timelines[t], stability, paradoxes,
                                              rift_drawn, hi)
        IN  /\ outcome' = [op |-> "predict_events",
                           timeline_id |-> timelines[t].timeline_id,
                           stability |-> stability, paradoxes |-> paradoxes,
                           raised |-> potential_events.raised,
                           potential_events |-> IF potential_events.raised THEN <<>>
                                                ELSE potential_events.value]
            /\ UNCHANGED <<restVars, karmaVars, gameVars, steps>>

NextPredict == PredictCall

SpecPredict == InitTimeline /\ [][NextPredict]_vars

EventsOfType(potential_events, type) ==
    SelectSeq(potential_events, LAMBDA e : e.type = type)

\* C29 (as claimed): every potential event carries a probability in [0, 100],
\* and each input paradox gives exactly one paradox_amplification (stability
\* below 50) or paradox_resolution (otherwise) entry.
C29_ProbabilitiesInRange ==
    (outcome.op = "predict_events" /\ ~outcome.raised) =>
        /\ \A k \in 1..Len(outcome.potential_events) :
               outcome.potential_events[k].probability \in 0..100000
        /\ Len(EventsOfType(outcome.potential_events, "paradox_amplification"))
               = (IF outcome.stability < 50000 THEN Len(outcome.paradoxes) ELSE 0)
        /\ Len(EventsOfType(outcome.potential_events, "paradox_resolution"))
               = (IF outcome.stability < 50000 THEN 0 ELSE Len(outcome.paradoxes))

----------------------------------------------------------------------------
(* Concurrent /evaluate-decision requests on the event loop                *)
(*   Every request is a task of one asyncio event loop, and all tasks use   *)
(*   the one KarmaCalculator of the module. A task runs until it awaits    *)
(*   something that is not ready; then the loop runs another task.          *)

MaxTasks == 3

LoopEvaluations ==
    {Evaluation(score, Absent, "", "", "", Absent) : score \in {-4, 10}}

LoopDecisions == {"wait and watch"}

\* an await that hands work to every awaited coroutine as if it were not ready
AwaitSuspendsAlways(coroutine) == TRUE

\* whether `await coroutine` gives the loop back: evaluate and
\* save_player_decision wait for a thread or the database, while
\* _calculate_consecutive_modifier and _update_action_history hold no await
\* and run to their end inside the awaiting task
AwaitSuspends(coroutine) ==
    coroutine \in {"decision_engine.evaluate", "game_data.save_player_decision"}

InitLoop ==
    /\ InitKarmaState
    /\ request = NoRequest
    /\ NoGame

\* a request arrives: its task starts and waits in decision_engine.evaluate
Submit ==
    \E p \in Players, d \in LoopDecisions, ev \in LoopEvaluations :
        /\ Len(tasks) < MaxTasks
        /\ tasks' = Append(tasks, [player |-> p, decision |-> d, evaluation |-> ev,
                                   pc |-> "evaluate", karma_impact |-> 0])
        /\ UNCHANGED <<karmaVars, gameVars, outcome, steps, current_turn,
                       current_player_index, cache, store, acknowledged, updates>>

\* the entry of `returned` for task k
TaskReturned(k, karma_impact) ==
    [player |-> tasks[k].player, karma_score |-> tasks[k].evaluation.karma_score,
     karma_impact |-> karma_impact, decision |-> tasks[k].decision,
     evaluation |-> tasks[k].evaluation, task |-> k]

\* the loop resumes task k, which runs to its next suspension: from the end of
\* evaluate through calculate to save_player_decision, and from there to the
\* response
Resume(k) ==
    LET task == tasks[k]
        history == player_action_history[task.player]
    IN  /\ task.pc # "done"
        /\ IF task.pc = "evaluate" /\ AwaitSuspends("_calculate_consecutive_modifier")
           THEN /\ tasks' = [tasks EXCEPT
                                 ![k].pc = "update",
                                 ![k].karma_impact =
                                     KarmaImpact(history, task.decision, task.evaluation)]
                /\ UNCHANGED <<player_action_history, returned>>
           ELSE IF task.pc = "evaluate"
           THEN LET c == Calculate(history, task.decision, task.evaluation)
                IN  /\ tasks' = [tasks EXCEPT ![k].pc = "save",
                                              ![k].karma_impact = c.karma_impact]
                    /\ player_action_history' =
                           [player_action_history EXCEPT ![task.player] = c.history]
                    /\ returned' = Append(returned, TaskReturned(k, c.karma_impact))
           ELSE IF task.pc = "update"
           THEN /\ tasks' = [tasks EXCEPT ![k].pc = "save"]
                /\ player_action_history' =
                       [player_action_history EXCEPT
                            ![task.player] = UpdateActionHistory(history, task.decision,
                                                                 task.karma_impact)]
                /\ returned' = Append(returned, TaskReturned(k, task.karma_impact))
           ELSE /\ tasks' = [tasks EXCEPT ![k].pc = "done"]
                /\ UNCHANGED <<player_action_history, returned>>
        /\ UNCHANGED <<total_call, request, gameVars, outcome, steps, current_turn,
                       current_player_index, cache, store, acknowledged, updates>>

NextLoop ==
    \/ Submit
    \/ \E k \in 1..Len(tasks) : Resume(k)

SpecLoop == InitLoop /\ [][NextLoop]_vars

\* the histories after the first n calls of `returned` are made one after another
RECURSIVE SerialHistories(_)
SerialHistories(n) ==
    IF n = 0 THEN [p \in Players |-> <<>>]
    ELSE LET before == SerialHistories(n - 1)
             call == returned[n]
         IN  [before EXCEPT ![call.player] =
                  Calculate(@, call.decision, call.evaluation).history]

\* C30: the histories and the returned impacts of interleaved requests are
\* those of the calls made one after another in the order of `returned`; each
\* call has one entry in its own player's history and in no other.
C30_InterleavingIsSerial ==
    /\ player_action_history = SerialHistories(Len(returned))
    /\ \A n \in 1..Len(returned) :
           returned[n].karma_impact =
               Calculate(SerialHistories(n - 1)[returned[n].player],
                         returned[n].decision, returned[n].evaluation).karma_impact
    /\ \A p \in Players :
           Len(player_action_history[p])
               = Cardinality({k \in 1..Len(tasks) :
                                  tasks[k].player = p /\ tasks[k].pc \in {"save", "done"}})
    /\ \A k \in 1..Len(tasks) :
           Cardinality({n \in 1..Len(returned) : returned[n].task = k})
               = (IF tasks[k].pc \in {"save", "done"} THEN 1 ELSE 0)

\* two requests of one player were in flight together and the later one was
\* resumed first
C30_Witness ==
    /\ Len(returned) >= 2
    /\ returned[1].player = returned[2].player
    /\ returned[1].task > returned[2].task
    /\ returned[2].karma_impact # returned[2].karma_score

====
